---- MODULE Spec2Model ----
(***************************************************************************)
(* One-way synchronisation of Logseq blocks tagged #card to Mochi cards,   *)
(* as implemented by MochiSync (src/src/MochiSync.ts).                     *)
(*                                                                         *)
(* The model holds the local graph (tagged blocks, their text lines and    *)
(* children), the remote store (cards, decks), the plugin settings, the    *)
(* module-level PROPERTY_REGEX object (its lastIndex survives every call), *)
(* and the position of one run of sync() between its await points.  Every  *)
(* remote call is a step whose outcome (success or failure) is chosen by   *)
(* the remote store.  The graph and the remote store change only while no  *)
(* run is in progress.                                                     *)
(***************************************************************************)
EXTENDS Integers, Sequences, FiniteSets, TLC

\* ------------------------------------------------------------- bounds
MaxBlocks == 2      \* tagged blocks in the graph
MaxChanges == 1     \* changes the environment makes in a behaviour
MaxFaults  == 1     \* calls that fail in a behaviour

Blocks == 1..MaxBlocks
None   == ""        \* JS undefined / empty string (both falsy)
Undef  == "<undefined>"   \* a setting that holds no string at all

CardId(n) == "R" \o ToString(n)

\* ------------------------------------------------------------- text lines
\* A line of block text.  A property line is `key:: val`; a text line may
\* carry the #card marker.
Text(t, marked) == [kind |-> "text", key |-> None, val |-> t, card |-> marked]
Prop(k, v)      == [kind |-> "prop", key |-> k, val |-> v, card |-> FALSE]

\* Length of the line as a JS string: `key:: val`, and `t #card`.
LineLen(l) ==
    IF l.kind = "prop" THEN Len(l.key) + 3 + Len(l.val)
    ELSE Len(l.val) + (IF l.card THEN 6 ELSE 0)

\* PROPERTY_REGEX = /^([A-Za-z0-9\?\-]+)::\s*(.*)$/gm, used through exec().
\* With the g flag exec() starts matching at lastIndex.  A line holds no line
\* terminator, so ^ matches at index 0 only: a search starting at
\* lastIndex > 0 fails, whatever the line is.  A match sets lastIndex to the
\* end of the match (the end of the line), a failure resets it to 0.
PropertyRegexExec(l, li) ==
    IF li = 0 /\ l.kind = "prop"
    THEN [match |-> TRUE,  lastIndex |-> LineLen(l)]
    ELSE [match |-> FALSE, lastIndex |-> 0]

\* CARDTAG_REGEX = /#card */g : content.replace(CARDTAG_REGEX, "") and trim().
RemoveCardTag(l) == IF l.kind = "text" THEN [l EXCEPT !.card = FALSE] ELSE l

\* The loop of getMarkdownWithProperties over the lines of one block:
\* kept lines, extracted pairs, and the regex's lastIndex afterwards.
RECURSIVE ScanLines(_, _, _, _)
ScanLines(ls, li, kept, pairs) ==
    IF ls = <<>> THEN [content |-> kept, props |-> pairs, lastIndex |-> li]
    ELSE LET r == PropertyRegexExec(Head(ls), li)
         IN  IF r.match
             THEN ScanLines(Tail(ls), r.lastIndex, kept,
                            Append(pairs, [key |-> Head(ls).key, value |-> Head(ls).val]))
             ELSE ScanLines(Tail(ls), r.lastIndex, Append(kept, Head(ls)), pairs)

\* The end of getMarkdownWithProperties: the #card marker is removed from
\* the kept lines (cloze and link rewriting leave the lines of the model as
\* they are).
Rendered(r) ==
    [content   |-> [i \in 1..Len(r.content) |-> RemoveCardTag(r.content[i])],
     props     |-> r.props,
     lastIndex |-> r.lastIndex]

getMarkdownWithProperties(ls, li) == Rendered(ScanLines(ls, li, <<>>, <<>>))

\* ------------------------------------------------------------- blocks
\* block.properties?.["mochi-id"]: the property bag Logseq itself parsed from
\* the block's lines (None when the block has no mochi-id line).
RECURSIVE BlockProperty(_, _)
BlockProperty(ls, k) ==
    IF ls = <<>> THEN None
    ELSE IF Head(ls).kind = "prop" /\ Head(ls).key = k THEN Head(ls).val
    ELSE BlockProperty(Tail(ls), k)

\* logseq.Editor.upsertBlockProperty(uuid, k, v): the value of an existing
\* `k::` line is replaced, otherwise a `k:: v` line is added after the
\* block's last line (the blocks of the model end with their properties).
upsertBlockProperty(ls, k, v) ==
    IF BlockProperty(ls, k) # None
    THEN [i \in 1..Len(ls) |->
            IF ls[i].kind = "prop" /\ ls[i].key = k THEN Prop(k, v) ELSE ls[i]]
    ELSE Append(ls, Prop(k, v))

\* properties[key] = value for every pair, in order: the last writer wins.
RECURSIVE MergeProps(_, _)
MergeProps(properties, pairs) ==
    IF pairs = <<>> THEN properties
    ELSE MergeProps((Head(pairs).key :> Head(pairs).value) @@ properties, Tail(pairs))

PropOf(properties, k) == IF k \in DOMAIN properties THEN properties[k] ELSE None

\* properties["mochi-tags"].split(",").map((t) => t.trim())
SplitTags(v) ==
    CASE v = "x, y" -> <<"x", "y">>
      [] v = "x, x" -> <<"x", "x">>
      [] OTHER      -> <<v>>

PageTitle == "Page"

\* getMarkdownWithProperties over a list of blocks (the ancestors, or the
\* children rendered by renderWithDescendants), threading the regex state.
\* sep is the chunk pushed before each rendered block (<<>>: none).
RECURSIVE ScanBlocks(_, _, _, _, _, _)
ScanBlock(md, rest, chunks, properties, sep, opt) ==
    ScanBlocks(rest, md.lastIndex,
               IF opt.push /\ (opt.always \/ md.content # <<>>)
               THEN Append(IF sep = <<>> THEN chunks ELSE Append(chunks, sep), md.content)
               ELSE chunks,
               IF opt.merge THEN MergeProps(properties, md.props) ELSE properties,
               sep, opt)

ScanBlocks(bs, li, chunks, properties, sep, opt) ==
    IF bs = <<>> THEN [chunks |-> chunks, properties |-> properties, lastIndex |-> li]
    ELSE ScanBlock(getMarkdownWithProperties(Head(bs), li), Tail(bs), chunks,
                   properties, sep, opt)

NonEmpty(bs) == SelectSeq(bs, LAMBDA b : b # <<>>)

\* Variant: the mochi-id is read from the merged properties, like the deck.
buildCardSpecialMerged(blk, st, props, kids) ==
    [threw      |-> st.includePageProperties,
     content    |-> kids.chunks,
     properties |-> props,
     deckname   |-> PropOf(props, "mochi-deck"),
     tags       |-> IF PropOf(props, "mochi-tags") # None
                    THEN SplitTags(PropOf(props, "mochi-tags")) ELSE <<>>,
     mochiId    |-> PropOf(props, "mochi-id"),
     lastIndex  |-> kids.lastIndex]

\* buildCard, its end: deck, tags and mochi-id read from the merged
\* properties and from the block.  threw: the for-of over the page's
\* property object throws.
buildCardSpecial(blk, st, props, kids) ==
    [threw      |-> st.includePageProperties,
     content    |-> kids.chunks,
     properties |-> props,
     deckname   |-> PropOf(props, "mochi-deck"),
     tags       |-> IF PropOf(props, "mochi-tags") # None
                    THEN SplitTags(PropOf(props, "mochi-tags")) ELSE <<>>,
     mochiId    |-> BlockProperty(blk.lines, "mochi-id"),
     lastIndex  |-> kids.lastIndex]

\* Variant: the children are rendered only with includeAncestorBlocks on.
buildCardChildrenOptional(blk, st, anc, own) ==
    buildCardSpecial(blk, st, MergeProps(anc.properties, own.props),
        ScanBlocks(IF st.includeAncestorBlocks THEN blk.children ELSE <<>>,
                   own.lastIndex, Append(anc.chunks, own.content),
                   <<>>, << Text("---", FALSE) >>,
                   [push |-> TRUE, always |-> TRUE, merge |-> FALSE]))

\* buildCard, the block itself and its children: the block's content is
\* pushed and its properties merged over those of the ancestors; each child
\* is rendered after a "---" chunk and its properties are not merged.
buildCardChildren(blk, st, anc, own) ==
    buildCardSpecial(blk, st, MergeProps(anc.properties, own.props),
        ScanBlocks(blk.children, own.lastIndex, Append(anc.chunks, own.content),
                   <<>>, << Text("---", FALSE) >>,
                   [push |-> TRUE, always |-> TRUE, merge |-> FALSE]))

buildCardOwn(blk, st, anc) ==
    buildCardChildren(blk, st, anc, getMarkdownWithProperties(blk.lines, anc.lastIndex))

\* buildCard(block): the card of one expanded block, and the regex state it
\* leaves behind: page title, then the ancestors.
buildCard(blk, st, li) ==
    buildCardOwn(blk, st,
        ScanBlocks(NonEmpty(blk.ancestors), li,
                   IF st.includePageTitle THEN << <<Text(PageTitle, FALSE)>> >> ELSE <<>>,
                   <<>>, <<>>,
                   [push |-> st.includeAncestorBlocks, always |-> FALSE, merge |-> TRUE]))

\* ------------------------------------------------------------- state
VARIABLES
    blocks,       \* the graph: block id -> [tagged, lines, ancestors, children]
    remoteCards,  \* the remote store: card id -> [content, deck, tags]
    remoteDecks,  \* the remote store: names of the existing decks
    nextId,       \* the next card id the remote store hands out
    settings,     \* logseq.settings
    lastIndex,    \* PROPERTY_REGEX.lastIndex
    pc,           \* position of the run of sync()
    run,          \* the locals of the run
    calls,        \* what the run has issued so far: remote calls, messages
    insync,       \* the last run completed without any error and nothing
                  \* changed in the graph or the remote store since
    changes,      \* how many changes the environment has made
    faults,       \* how many calls have failed
    probe,        \* a function applied on its own: its input and its result
    storage       \* logseq.FileStorage: the stored id map, block -> card id

vars == <<blocks, remoteCards, remoteDecks, nextId, settings, lastIndex, pc, run, calls, insync, changes, faults, probe, storage>>

DeckId(name) == "deck/" \o name

Q1 == Text("Q1", TRUE)
Bodies ==
    { [lines |-> <<Q1>>, children |-> <<>>],
      [lines |-> <<Q1>>, children |-> << <<Text("A1", FALSE)>> >>],
      [lines |-> <<Q1, Prop("mochi-deck", "D2")>>, children |-> <<>>] }

Block(body, id) ==
    [tagged    |-> TRUE,
     lines     |-> IF id = None THEN body.lines
                   ELSE Append(body.lines, Prop("mochi-id", id)),
     ancestors |-> <<>>,
     children  |-> body.children]

\* A slot of the graph that holds no tagged block.
Removed == [Block([lines |-> <<>>, children |-> <<>>], None) EXCEPT !.tagged = FALSE]

SettingsChoices ==
    [mochiApiKey           : {"key", None},
     defaultDeck           : {"D1", None, Undef},
     syncDeletedCards      : BOOLEAN,
     includePageTitle      : {FALSE},
     includeAncestorBlocks : {FALSE},
     includePageProperties : BOOLEAN]

NoRun ==
    [mochiCards |-> <<>>, logseqCards |-> <<>>, deckMap |-> <<>>, deckTodo |-> <<>>,
     plan |-> <<>>, orphanTodo |-> {}, idx |-> 0,
     created |-> 0, updated |-> 0, deleted |-> 0,
     idMap |-> <<>>, logseqMochiIds |-> {}]

NoCalls ==
    [net |-> 0, deckCreate |-> <<>>, create |-> <<>>, update |-> <<>>, delete |-> <<>>,
     writeBack |-> <<>>, processed |-> <<>>, cardErrors |-> <<>>, errors |-> 0,
     outcome |-> None, report |-> <<>>, fetchFailed |-> FALSE,
     buildThrew |-> FALSE,
     startedInSync |-> FALSE]

NoProbe == [fn |-> None]

\* What the Mochi account holds before a run: nothing, a card the user made
\* in Mochi, which has no tag logseq, or cards left by earlier runs.
OwnCards == ("own" :> [content |-> "own", deck |-> "deck/own", tags |-> <<>>])

\* Two cards of earlier runs whose blocks are gone from the graph.
LeftCards ==
    [id \in {"L1", "L2"} |->
        [content |-> "old", deck |-> DeckId("D1"), tags |-> <<"logseq">>]]

Init ==
    /\ blocks \in [Blocks -> {Block(b, None) : b \in Bodies} \cup {Removed}]
    /\ remoteCards \in {<<>>, OwnCards, LeftCards}
    /\ remoteDecks = {}
    /\ nextId = 1
    /\ settings \in SettingsChoices
    /\ lastIndex = 0
    /\ pc = "idle"
    /\ run = NoRun
    /\ calls = NoCalls
    /\ insync = FALSE
    /\ changes = 0
    /\ faults = 0
    /\ probe = NoProbe
    /\ storage = <<>>

\* ------------------------------------------------------------- helpers of the run
SeqToSet(q) == {q[i] : i \in 1..Len(q)}

\* typeof v === "string"
IsString(v) == v # Undef

\* fetchLogseqCardBlocks: the tagged blocks as the query returns them, each
\* with the property bag it has at that moment.
RECURSIVE CardBlocksFrom(_, _)
CardBlocksFrom(b, bl) ==
    IF b > MaxBlocks THEN <<>>
    ELSE (IF bl[b].tagged
          THEN << [id |-> b, mochiId |-> BlockProperty(bl[b].lines, "mochi-id")] >>
          ELSE <<>>) \o CardBlocksFrom(b + 1, bl)

fetchLogseqCardBlocks(bl) == CardBlocksFrom(1, bl)

\* Variant: every remote card is taken, tagged or not.
fetchMochiCardsUnfiltered(rc) == rc

\* fetchMochiCards: the remote cards whose manual-tags include "logseq".
fetchMochiCards(rc) ==
    [id \in {i \in DOMAIN rc : "logseq" \in SeqToSet(rc[i].tags)} |-> rc[id]]

\* The deck id createMochiCard and updateMochiCard send: the card's deck if the
\* map has it, otherwise the default deck if the map has that, otherwise none.
ResolveDeck(card, deckMap, st) ==
    IF card.deckname # None /\ card.deckname \in DOMAIN deckMap
    THEN deckMap[card.deckname]
    ELSE IF IsString(st.defaultDeck) /\ st.defaultDeck \in DOMAIN deckMap
    THEN deckMap[st.defaultDeck]
    ELSE None

\* [...(card.tags || []), "logseq"]
SentTags(card) == Append(card.tags, "logseq")

\* Variant: only the content is compared.
cardNeedsUpdateContentOnly(currentCard, existingMochiCard, deckMap, st) ==
    currentCard.content # existingMochiCard.content

\* cardNeedsUpdate: content, intended deck id and tags against the remote card.
cardNeedsUpdate(currentCard, existingMochiCard, deckMap, st) ==
    LET intendedDeckId ==
            IF currentCard.deckname # None
            THEN PropOf(deckMap, currentCard.deckname)
            ELSE IF IsString(st.defaultDeck) THEN PropOf(deckMap, st.defaultDeck)
            ELSE None
        contentChanged == currentCard.content # existingMochiCard.content
        deckChanged    == intendedDeckId # existingMochiCard.deck
        expectedTags   == SentTags(currentCard)
        actualTags     == existingMochiCard.tags
        tagsChanged    ==
            \/ Len(expectedTags) # Len(actualTags)
            \/ ~ \A i \in 1..Len(expectedTags) : expectedTags[i] \in SeqToSet(actualTags)
    IN  contentChanged \/ deckChanged \/ tagsChanged

\* Variant: a list, which keeps a name as often as it is added.
deckNamesPush(names, name) == Append(names, name)

\* deckNames.add(name) on a Set: a name is kept once, in insertion order.
deckNamesAdd(names, name) ==
    IF name \in SeqToSet(names) THEN names ELSE Append(names, name)

\* The first loop of manageDecks: build every card and collect, in insertion
\* order, the deck names the run needs.
RECURSIVE CollectDeckNames(_, _, _, _, _, _)
CollectDeckName(card, cards, i, bl, st, li, names) ==
    LET name == IF card.deckname # None THEN card.deckname
                ELSE IF IsString(st.defaultDeck) THEN st.defaultDeck
                ELSE Undef
    IN  IF card.threw THEN [names |-> names, lastIndex |-> li, threw |-> TRUE]
        ELSE CollectDeckNames(cards, i + 1, bl, st, card.lastIndex,
               IF name = Undef THEN names ELSE deckNamesAdd(names, name))

CollectDeckNames(cards, i, bl, st, li, names) ==
    IF i > Len(cards) THEN [names |-> names, lastIndex |-> li, threw |-> FALSE]
    ELSE CollectDeckName(buildCard(bl[cards[i].id], st, li), cards, i, bl, st, li, names)

\* Variant: the membership test inverted.
OrphanIdsInverted(cards, logseqCards) ==
    LET logseqMochiIds == {logseqCards[i].mochiId : i \in 1..Len(logseqCards)} \ {None}
    IN  {id \in DOMAIN cards : id \in logseqMochiIds}

\* deleteOrphanedCards: the ids of the given remote cards that are the
\* mochi-id of no fetched block.
OrphanIds(cards, logseqCards) ==
    LET logseqMochiIds == {logseqCards[i].mochiId : i \in 1..Len(logseqCards)} \ {None}
    IN  {id \in DOMAIN cards : id \notin logseqMochiIds}

\* Variant: the loop first, then deletion over a fresh fetch.
syncCardsDeleteLast ==
    << [phase |-> "process", cards |-> "fetched"],
       [phase |-> "delete",  cards |-> "refetched"] >>

\* The body of syncCards: orphan deletion first, then the create/update loop,
\* both over the cards fetched at the start of the run.
syncCards ==
    << [phase |-> "delete",  cards |-> "fetched"],
       [phase |-> "process", cards |-> "fetched"] >>

\* Variant: the syncDeletedCards setting is not consulted.
SyncCardsPlanAlways(st) == syncCards

\* What syncCards runs: deleteOrphanedCards only if syncDeletedCards is set.
SyncCardsPlan(st) ==
    SelectSeq(syncCards, LAMBDA p : p.phase # "delete" \/ st.syncDeletedCards)

\* ------------------------------------------------------------- the run of sync()
\* The outcomes a call can have: it succeeds, or (within the budget) fails.
Outcomes == IF faults < MaxFaults THEN BOOLEAN ELSE {TRUE}
Fault(ok) == faults' = IF ok THEN faults ELSE faults + 1

Log(field, entry) == [calls EXCEPT ![field] = Append(@, entry)]

\* catch (error) of sync(): one "Sync failed" message, the run is over.
TopLevelError(c) == [c EXCEPT !.errors = @ + 1, !.outcome = "failed"]

\* Variant: a rejected fetch is taken as an empty answer.
AfterFetchIgnored(ok, next) == next

\* Where sync() is after an awaited fetch: a rejection leaves the try block
\* for the catch, and nothing after the await runs.
AfterFetch(ok, next) == IF ok THEN next ELSE "done"

\* sync(), up to its first await: without an API key one error message and
\* return; otherwise the "Syncing with Mochi..." message.
SyncStart ==
    /\ pc = "idle"
    /\ run' = NoRun
    /\ IF settings.mochiApiKey = None
       THEN /\ calls' = [NoCalls EXCEPT !.errors = 1, !.outcome = "config",
                                        !.startedInSync = insync]
            /\ pc' = "done"
       ELSE /\ calls' = [NoCalls EXCEPT !.startedInSync = insync]
            /\ pc' = "fetch"
    /\ UNCHANGED <<blocks, remoteCards, remoteDecks, nextId, settings, lastIndex, insync, changes, faults, probe, storage>>

\* Phase 1: Promise.all([fetchMochiCards(), fetchLogseqCardBlocks()]).
Fetch ==
    /\ pc = "fetch"
    /\ \E ok \in Outcomes :
         /\ Fault(ok)
         /\ IF ok
            THEN /\ run' = [run EXCEPT !.mochiCards = fetchMochiCards(remoteCards),
                                       !.logseqCards = fetchLogseqCardBlocks(blocks)]
                 /\ calls' = [calls EXCEPT !.net = @ + 1]
            ELSE /\ calls' = TopLevelError([calls EXCEPT !.net = @ + 1,
                                                         !.fetchFailed = TRUE])
                 /\ run' = run
         /\ pc' = AfterFetch(ok, "decks")
    /\ UNCHANGED <<blocks, remoteCards, remoteDecks, nextId, settings, lastIndex, insync, changes, probe, storage>>

\* Phase 2, manageDecks up to its first createDeck: fetchDecks, then one
\* buildCard per fetched block to collect the deck names.  A failed fetch and
\* a throwing buildCard both reach the catch of sync().
ManageDecks ==
    /\ pc = "decks"
    /\ \E ok \in Outcomes :
         /\ Fault(ok)
         /\ IF ok
            THEN \E col \in {CollectDeckNames(run.logseqCards, 1, blocks, settings,
                                               lastIndex, <<>>)} :
                 LET deckMap == [n \in remoteDecks |-> DeckId(n)]
                 IN  /\ lastIndex' = col.lastIndex
                     /\ IF col.threw
                        THEN /\ calls' = TopLevelError([calls EXCEPT !.net = @ + 1,
                                                                     !.buildThrew = TRUE])
                             /\ pc' = "done"
                             /\ run' = run
                        ELSE /\ calls' = [calls EXCEPT !.net = @ + 1]
                             /\ pc' = AfterFetch(TRUE, "createDecks")
                             /\ run' = [run EXCEPT
                                    !.deckMap = deckMap,
                                    !.deckTodo = SelectSeq(col.names,
                                                   LAMBDA n : n \notin DOMAIN deckMap)]
            ELSE /\ calls' = TopLevelError([calls EXCEPT !.net = @ + 1,
                                                         !.fetchFailed = TRUE])
                 /\ pc' = AfterFetch(FALSE, "createDecks")
                 /\ UNCHANGED <<run, lastIndex>>
    /\ UNCHANGED <<blocks, remoteCards, remoteDecks, nextId, settings, insync, changes, probe, storage>>

\* One turn of "Create missing decks": createDeck(name); a failure is logged
\* and the loop goes on.
CreateDeck ==
    /\ pc = "createDecks"
    /\ run.deckTodo # <<>>
    /\ LET name == Head(run.deckTodo)
       IN  \E ok \in Outcomes :
             /\ Fault(ok)
             /\ calls' = [Log("deckCreate", [name |-> name, ok |-> ok])
                            EXCEPT !.net = @ + 1]
             /\ IF ok
                   THEN /\ remoteDecks' = remoteDecks \cup {name}
                        /\ run' = [run EXCEPT !.deckTodo = Tail(@),
                                              !.deckMap = (name :> DeckId(name)) @@ @]
                   ELSE /\ remoteDecks' = remoteDecks
                        /\ run' = [run EXCEPT !.deckTodo = Tail(@)]
    /\ UNCHANGED <<blocks, remoteCards, nextId, settings, lastIndex, pc, insync, changes, probe, storage>>

\* manageDecks returns; sync() calls syncCards.
EnterSyncCards ==
    /\ pc = "createDecks"
    /\ run.deckTodo = <<>>
    /\ run' = [run EXCEPT !.plan = SyncCardsPlan(settings)]
    /\ pc' = "syncCards"
    /\ UNCHANGED <<blocks, remoteCards, remoteDecks, nextId, settings, lastIndex, calls, insync, changes, faults, probe, storage>>

\* syncCards calls its next part: deleteOrphanedCards computes its orphans,
\* processLogseqCards starts its loop.
EnterPhase ==
    /\ pc = "syncCards"
    /\ run.plan # <<>>
    /\ LET p     == Head(run.plan)
           cards == IF p.cards = "fetched" THEN run.mochiCards
                    ELSE fetchMochiCards(remoteCards)
       IN  /\ pc' = p.phase
           /\ run' = [run EXCEPT !.plan = Tail(@),
                                 !.mochiCards = cards,
                                 !.orphanTodo = IF p.phase = "delete"
                                                THEN OrphanIds(cards, run.logseqCards)
                                                ELSE {},
                                 !.idx = 1]
    /\ UNCHANGED <<blocks, remoteCards, remoteDecks, nextId, settings, lastIndex, calls, insync, changes, faults, probe, storage>>

\* Variant: the count is raised before the call is known to have succeeded.
orphanedCardsAlways(n, ok) == n + 1

\* orphanedCards++ stands after the awaited deleteMochiCard, inside the try.
orphanedCards(n, ok) == IF ok THEN n + 1 ELSE n

\* Variant: the try/catch around the loop, so that an error ends it.
orphansLeftNone(orphans, id, ok) == IF ok THEN orphans \ {id} ELSE {}

\* for (const card of orphans) with the try/catch inside: the loop goes on
\* to the other orphans after a failed call as after a successful one.
orphansLeft(orphans, id, ok) == orphans \ {id}

\* One turn of the loop of deleteOrphanedCards: deleteMochiCard(card.id); a
\* failure is logged and the loop goes on.
DeleteOrphan ==
    /\ pc = "delete"
    /\ \E id \in run.orphanTodo, ok \in Outcomes :
         /\ Fault(ok)
         /\ calls' = [Log("delete", [id |-> id, ok |-> ok]) EXCEPT !.net = @ + 1]
         /\ run' = [run EXCEPT !.orphanTodo = orphansLeft(@, id, ok),
                               !.deleted = orphanedCards(@, ok)]
         /\ remoteCards' = IF ok THEN [i \in DOMAIN remoteCards \ {id} |-> remoteCards[i]]
                           ELSE remoteCards
    /\ UNCHANGED <<blocks, remoteDecks, nextId, settings, lastIndex, pc, insync, changes, probe, storage>>

\* deleteOrphanedCards or processLogseqCards returns to syncCards.
LeavePhase ==
    /\ \/ pc = "delete"  /\ run.orphanTodo = {}
       \/ pc = "process" /\ run.idx > Len(run.logseqCards)
    /\ pc' = "syncCards"
    /\ UNCHANGED <<blocks, remoteCards, remoteDecks, nextId, settings, lastIndex, run, calls, insync, changes, faults, probe, storage>>

\* Variant: a block is new only if it has no mochi-id at all.
BranchById(card, mochiId, mochiCards, deckMap, st) ==
    LET deckId == ResolveDeck(card, deckMap, st)
    IN  [card   |-> card,
         deckId |-> deckId,
         branch |-> IF card.threw THEN "threw"
                    ELSE IF mochiId = None
                         THEN (IF deckId = None THEN "createNoDeck" ELSE "create")
                    ELSE IF mochiId \in DOMAIN mochiCards
                            /\ ~cardNeedsUpdate(card, mochiCards[mochiId], deckMap, st)
                         THEN "noop"
                    ELSE IF deckId = None THEN "updateNoDeck" ELSE "update"]

\* What one turn of the loop of processLogseqCards does with its block: the
\* card it builds and the branch it takes.  createMochiCard and
\* updateMochiCard throw before any request when no deck id resolves.
Branch(card, mochiId, mochiCards, deckMap, st) ==
    LET isNew  == mochiId = None \/ mochiId \notin DOMAIN mochiCards
        deckId == ResolveDeck(card, deckMap, st)
    IN  [card   |-> card,
         deckId |-> deckId,
         branch |-> IF card.threw THEN "threw"
                    ELSE IF isNew
                         THEN (IF deckId = None THEN "createNoDeck" ELSE "create")
                    ELSE IF ~cardNeedsUpdate(card, mochiCards[mochiId], deckMap, st)
                         THEN "noop"
                    ELSE IF deckId = None THEN "updateNoDeck" ELSE "update"]

Decision(b, mochiId, mochiCards, deckMap, bl, st, li) ==
    Branch(buildCard(bl[b], st, li), mochiId, mochiCards, deckMap, st)

\* The body of the requests of createMochiCard and updateMochiCard.
Sent(card, deckId) == [content |-> card.content, deck |-> deckId, tags |-> SentTags(card)]

\* Variant: the error of a card ends the loop.
AfterTurnAbort(failed) == IF failed THEN "done" ELSE "process"

\* Where processLogseqCards is after a turn: the catch of the loop body logs
\* the error, and the loop goes to the next block either way.
AfterTurn(failed) == "process"

\* One turn of the loop of processLogseqCards, with its try/catch.
ProcessCard ==
    /\ pc = "process"
    /\ run.idx <= Len(run.logseqCards)
    /\ \E d \in {Decision(run.logseqCards[run.idx].id, run.logseqCards[run.idx].mochiId,
                          run.mochiCards, run.deckMap, blocks, settings, lastIndex)} :
       LET b       == run.logseqCards[run.idx].id
           mochiId == run.logseqCards[run.idx].mochiId
           seen    == Log("processed", [block |-> b, mochiId |-> mochiId,
                                        deckname |-> d.card.deckname,
                                        branch |-> d.branch])
           failed  == [seen EXCEPT !.cardErrors = Append(@, b),
                                   !.buildThrew = @ \/ d.branch = "threw"]
       IN  /\ lastIndex' = IF d.branch = "threw" THEN lastIndex ELSE d.card.lastIndex
           /\ \/ /\ d.branch \in {"threw", "createNoDeck", "updateNoDeck"}
                 /\ calls' = failed
                 /\ UNCHANGED <<blocks, remoteCards, nextId, faults>>
              \/ /\ d.branch = "noop"
                 /\ calls' = seen
                 /\ UNCHANGED <<blocks, remoteCards, nextId, faults>>
              \/ \* createMochiCard fails
                 /\ d.branch = "create"
                 /\ FALSE \in Outcomes
                 /\ Fault(FALSE)
                 /\ calls' = [failed EXCEPT !.net = @ + 1,
                                !.create = Append(@, [block |-> b, deck |-> d.deckId,
                                                      id |-> None])]
                 /\ UNCHANGED <<blocks, remoteCards, nextId>>
              \/ \* createMochiCard returns the new id, then upsertBlockProperty
                 /\ d.branch = "create"
                 /\ LET newId == CardId(nextId)
                    IN  /\ remoteCards' = (newId :> Sent(d.card, d.deckId)) @@ remoteCards
                        /\ nextId' = nextId + 1
                        /\ blocks' = [blocks EXCEPT ![b].lines =
                                        upsertBlockProperty(@, "mochi-id", newId)]
                        /\ calls' = [seen EXCEPT !.net = @ + 1,
                                       !.create = Append(@, [block |-> b, deck |-> d.deckId,
                                                             id |-> newId]),
                                       !.writeBack = Append(@, [block |-> b, id |-> newId])]
                 /\ UNCHANGED faults
              \/ \* updateMochiCard
                 /\ d.branch = "update"
                 /\ \E ok \in Outcomes :
                      /\ Fault(ok)
                      /\ calls' = [(IF ok THEN seen ELSE failed) EXCEPT !.net = @ + 1,
                                     !.update = Append(@, [block |-> b, id |-> mochiId,
                                                           deck |-> d.deckId, ok |-> ok])]
                      /\ remoteCards' =
                            IF ok /\ mochiId \in DOMAIN remoteCards
                            THEN [remoteCards EXCEPT ![mochiId] = Sent(d.card, d.deckId)]
                            ELSE remoteCards
                 /\ UNCHANGED <<blocks, nextId>>
           /\ LET threw == Len(calls'.cardErrors) > Len(calls.cardErrors)
              IN  /\ pc' = AfterTurn(threw)
                  /\ run' = [run EXCEPT
                         !.idx = @ + 1,
                         !.created = IF Len(calls'.writeBack) > Len(calls.writeBack)
                                     THEN @ + 1 ELSE @,
                         !.updated = IF Len(calls'.update) > Len(calls.update) /\ ~threw
                                     THEN @ + 1 ELSE @]
    /\ UNCHANGED <<remoteDecks, settings, insync, changes, probe, storage>>

\* syncCards returns its counts: the "Sync complete" message.
Report ==
    /\ pc = "syncCards"
    /\ run.plan = <<>>
    /\ calls' = [calls EXCEPT !.outcome = "complete",
                              !.report = <<run.created, run.updated, run.deleted>>]
    /\ pc' = "done"
    /\ UNCHANGED <<blocks, remoteCards, remoteDecks, nextId, settings, lastIndex, run, insync, changes, faults, probe, storage>>

\* No call of the run failed and no per-card error was caught.
RunClean(c) ==
    /\ c.outcome = "complete"
    /\ c.cardErrors = <<>>
    /\ \A i \in 1..Len(c.deckCreate) : c.deckCreate[i].ok
    /\ \A i \in 1..Len(c.delete) : c.delete[i].ok

\* The promise of sync() settles.
SyncReturn ==
    /\ pc = "done"
    /\ pc' = "idle"
    /\ insync' = RunClean(calls)
    /\ run' = NoRun
    /\ calls' = NoCalls
    /\ UNCHANGED <<blocks, remoteCards, remoteDecks, nextId, settings, lastIndex, changes, faults, probe, storage>>

\* ------------------------------------------------------------- the environment
\* The user rewrites a tagged block (Logseq keeps its mochi-id line), removes
\* it, or writes a new one.
UserEdit ==
    /\ pc = "idle"
    /\ \E b \in Blocks, body \in Bodies :
         /\ blocks[b].tagged
         /\ blocks' = [blocks EXCEPT
                         ![b] = Block(body, BlockProperty(blocks[b].lines, "mochi-id"))]
         /\ blocks' # blocks
    /\ insync' = FALSE
    /\ changes < MaxChanges
    /\ changes' = changes + 1
    /\ UNCHANGED <<remoteCards, remoteDecks, nextId, settings, lastIndex, pc, run, calls, faults, probe, storage>>

UserRemove ==
    /\ pc = "idle"
    /\ \E b \in Blocks :
         /\ blocks[b].tagged
         /\ blocks' = [blocks EXCEPT ![b] = Removed]
    /\ insync' = FALSE
    /\ changes < MaxChanges
    /\ changes' = changes + 1
    /\ UNCHANGED <<remoteCards, remoteDecks, nextId, settings, lastIndex, pc, run, calls, faults, probe, storage>>

UserAdd ==
    /\ pc = "idle"
    /\ \E b \in Blocks, body \in Bodies :
         /\ ~blocks[b].tagged
         /\ blocks' = [blocks EXCEPT ![b] = Block(body, None)]
    /\ insync' = FALSE
    /\ changes < MaxChanges
    /\ changes' = changes + 1
    /\ UNCHANGED <<remoteCards, remoteDecks, nextId, settings, lastIndex, pc, run, calls, faults, probe, storage>>

\* A card disappears from the remote store behind the plugin's back.
RemoteLoss ==
    /\ pc = "idle"
    /\ \E id \in DOMAIN remoteCards :
         remoteCards' = [i \in DOMAIN remoteCards \ {id} |-> remoteCards[i]]
    /\ insync' = FALSE
    /\ changes < MaxChanges
    /\ changes' = changes + 1
    /\ UNCHANGED <<blocks, remoteDecks, nextId, settings, lastIndex, pc, run, calls, faults, probe, storage>>

\* The user takes the system tag off a card in Mochi: the card stays in the
\* remote store and the filter of fetchMochiCards no longer returns it.
RemoteUntag ==
    /\ pc = "idle"
    /\ \E id \in DOMAIN remoteCards :
         /\ "logseq" \in SeqToSet(remoteCards[id].tags)
         /\ remoteCards' = [remoteCards EXCEPT
                               ![id].tags = SelectSeq(@, LAMBDA t : t # "logseq")]
    /\ insync' = FALSE
    /\ changes < MaxChanges
    /\ changes' = changes + 1
    /\ UNCHANGED <<blocks, remoteDecks, nextId, settings, lastIndex, pc, run, calls, faults, probe, storage>>

Next ==
    \/ SyncStart \/ Fetch \/ ManageDecks \/ CreateDeck \/ EnterSyncCards
    \/ EnterPhase \/ DeleteOrphan \/ LeavePhase \/ ProcessCard \/ Report \/ SyncReturn
    \/ UserEdit \/ UserRemove \/ UserAdd \/ RemoteLoss \/ RemoteUntag

Spec == Init /\ [][Next]_vars

\* ------------------------------------------------------------- cardNeedsUpdate on its own
\* The cards buildCard produces for the bodies of the model, compared with
\* remote cards as createMochiCard and updateMochiCard leave them, under
\* every small deck map.
ProbeCards ==
    {buildCard(Block(b, None),
               CHOOSE st \in SettingsChoices : ~st.includePageProperties, 0) : b \in Bodies}

ProbeDeckMaps ==
    { [n \in names |-> DeckId(n)] : names \in (SUBSET {"D1", "D2"}) \ {{}} }

ProbeInputs ==
    [fn       : {"cardNeedsUpdate"},
     card     : ProbeCards,
     existing : [content : {c.content : c \in ProbeCards},
                 deck    : {DeckId("D1"), DeckId("D2")},
                 tags    : {<<"logseq">>, <<"x", "logseq">>}],
     deckMap  : ProbeDeckMaps,
     done     : {FALSE},
     out      : {FALSE}]

InitCompare ==
    /\ blocks = [b \in Blocks |-> Removed]
    /\ remoteCards = <<>>
    /\ remoteDecks = {}
    /\ nextId = 1
    /\ settings \in {st \in SettingsChoices : st.mochiApiKey = "key" /\ st.syncDeletedCards}
    /\ lastIndex = 0
    /\ pc = "idle"
    /\ run = NoRun
    /\ calls = NoCalls
    /\ insync = FALSE
    /\ changes = 0
    /\ faults = 0
    /\ probe \in ProbeInputs
    /\ storage = <<>>

Compare ==
    /\ probe.fn = "cardNeedsUpdate"
    /\ ~probe.done
    /\ probe' = [probe EXCEPT !.done = TRUE,
                              !.out = cardNeedsUpdate(probe.card, probe.existing,
                                                      probe.deckMap, settings)]
    /\ UNCHANGED <<blocks, remoteCards, remoteDecks, nextId, settings, lastIndex, pc, run, calls, insync, changes, faults, storage>>

NextCompare == Compare

SpecCompare == InitCompare /\ [][NextCompare]_vars

\* ------------------------------------------------------------- buildCard on its own
\* The calls of buildCard that one run makes on a graph of two tagged blocks:
\* manageDecks builds block 1 and block 2, processLogseqCards builds them
\* again, and the one PROPERTY_REGEX object serves all of them.
BuildTurns == 4

Anc == Text("P", FALSE)
BuildAncestors ==
    { <<>>,
      << <<Anc, Prop("mochi-deck", "D1")>> >>,
      << <<Anc, Prop("mochi-id", "R9")>> >> }

BuildLines ==
    { <<Q1>>,
      <<Q1, Prop("mochi-deck", "D2")>>,
      <<Q1, Prop("mochi-tags", "x"), Prop("mochi-deck", "D2")>>,
      <<Q1, Prop("mochi-deck", "D2"), Prop("mochi-id", "R1")>>,
      <<Prop("mochi-deck", "D2"), Q1>> }

BuildChildren ==
    { <<>>,
      << <<Text("A1", FALSE), Prop("k", "v")>>, <<Text("A2", FALSE)>> >> }

BuildBlocks ==
    [tagged : {TRUE}, lines : BuildLines, ancestors : BuildAncestors,
     children : BuildChildren]

BuildSettings ==
    [mochiApiKey           : {"key"},
     defaultDeck           : {"D1"},
     syncDeletedCards      : {TRUE},
     includePageTitle      : BOOLEAN,
     includeAncestorBlocks : BOOLEAN,
     includePageProperties : BOOLEAN]

InitBuild ==
    /\ blocks \in [Blocks -> BuildBlocks]
    /\ remoteCards = <<>>
    /\ remoteDecks = {}
    /\ nextId = 1
    /\ settings \in BuildSettings
    /\ lastIndex = 0
    /\ pc = "idle"
    /\ run = NoRun
    /\ calls = NoCalls
    /\ insync = FALSE
    /\ changes = 0
    /\ faults = 0
    /\ probe = [fn |-> "buildCard", built |-> <<>>]
    /\ storage = <<>>

\* The block of the n-th call: the blocks in order, twice.
BuildTurn(n) == ((n - 1) % MaxBlocks) + 1

\* const card = await buildCard(expandedBlock), in both loops.
Build ==
    /\ probe.fn = "buildCard"
    /\ Len(probe.built) < BuildTurns
    /\ \E card \in {buildCard(blocks[BuildTurn(Len(probe.built) + 1)], settings, lastIndex)} :
         /\ probe' = [probe EXCEPT !.built = Append(@, card)]
         /\ lastIndex' = card.lastIndex
    /\ UNCHANGED <<blocks, remoteCards, remoteDecks, nextId, settings, pc, run, calls, insync, changes, faults, storage>>

NextBuild == Build

SpecBuild == InitBuild /\ [][NextBuild]_vars

\* ------------------------------------------------------------- getMarkdownWithProperties on its own
\* Successive calls of getMarkdownWithProperties on the texts of different
\* blocks, served by the one PROPERTY_REGEX object.
MaxLines == 3
ResolveCalls == 2

ResolveAlphabet == {Text("a", FALSE), Prop("k1", "v"), Prop("k2", "w")}

ResolveTexts ==
    UNION {[1..n -> ResolveAlphabet] : n \in 1..MaxLines}

InitResolve ==
    /\ blocks = [b \in Blocks |-> Removed]
    /\ remoteCards = <<>>
    /\ remoteDecks = {}
    /\ nextId = 1
    /\ settings \in {st \in BuildSettings :
                        /\ ~st.includePageTitle /\ ~st.includeAncestorBlocks
                        /\ ~st.includePageProperties}
    /\ lastIndex = 0
    /\ pc = "idle"
    /\ run = NoRun
    /\ calls = NoCalls
    /\ insync = FALSE
    /\ changes = 0
    /\ faults = 0
    /\ probe \in [fn : {"getMarkdownWithProperties"},
                  texts : [1..ResolveCalls -> ResolveTexts],
                  out : {<<>>}]
    /\ storage = <<>>

\* const [content, props] = await getMarkdownWithProperties(block)
Resolve ==
    /\ probe.fn = "getMarkdownWithProperties"
    /\ Len(probe.out) < ResolveCalls
    /\ \E md \in {getMarkdownWithProperties(probe.texts[Len(probe.out) + 1], lastIndex)} :
         /\ probe' = [probe EXCEPT !.out = Append(@, md)]
         /\ lastIndex' = md.lastIndex
    /\ UNCHANGED <<blocks, remoteCards, remoteDecks, nextId, settings, pc, run, calls, insync, changes, faults, storage>>

NextResolve == Resolve

SpecResolve == InitResolve /\ [][NextResolve]_vars

\* ------------------------------------------------------------- the text transformer
\* The end of getMarkdownWithProperties on the characters of a text: the
\* three replace() calls and the trim().  A text is a sequence of characters.
\* The texts here are one line that is no property line: the line loop keeps
\* them whole and leaves PROPERTY_REGEX.lastIndex at 0.
StartsAt(s, i, pat) ==
    /\ i + Len(pat) - 1 <= Len(s)
    /\ SubSeq(s, i, i + Len(pat) - 1) = pat

Contains(s, pat) == \E i \in 1..Len(s) : StartsAt(s, i, pat)

CardTag    == <<"#", "c", "a", "r", "d">>
ClozeOpen  == <<"{", "{", "c", "l", "o", "z", "e", " ">>
BraceOpen  == <<"{", "{">>
BraceClose == <<"}", "}">>
LinkOpen   == <<"[", "[">>
LinkClose  == <<"]", "]">>
Backslash  == "\\"

RECURSIVE SkipSpaces(_, _)
SkipSpaces(s, i) == IF i <= Len(s) /\ s[i] = " " THEN SkipSpaces(s, i + 1) ELSE i

\* result.replace(CARDTAG_REGEX, "") with CARDTAG_REGEX = /#card */g
RECURSIVE ReplaceCardTag(_, _, _)
ReplaceCardTag(s, i, out) ==
    IF i > Len(s) THEN out
    ELSE IF StartsAt(s, i, CardTag)
         THEN ReplaceCardTag(s, SkipSpaces(s, i + Len(CardTag)), out)
         ELSE ReplaceCardTag(s, i + 1, Append(out, s[i]))

\* The lazy (.*?)\}\} from index j: the index of the first }} that no line
\* break precedes, 0 when there is none.
RECURSIVE ClozeEnd(_, _)
ClozeEnd(s, j) ==
    IF j + 1 > Len(s) THEN 0
    ELSE IF StartsAt(s, j, BraceClose) THEN j
    ELSE IF s[j] = "\n" THEN 0
    ELSE ClozeEnd(s, j + 1)

\* result.replace(CLOZE_REGEX, "{{$1}}") with
\* CLOZE_REGEX = /\{\{cloze (.*?)\}\}/gm
RECURSIVE ReplaceCloze(_, _, _)
ReplaceClozeAt(s, i, out, e) ==
    IF e = 0 THEN ReplaceCloze(s, i + 1, Append(out, s[i]))
    ELSE ReplaceCloze(s, e + 2,
             out \o BraceOpen \o SubSeq(s, i + Len(ClozeOpen), e - 1) \o BraceClose)

ReplaceCloze(s, i, out) ==
    IF i > Len(s) THEN out
    ELSE IF StartsAt(s, i, ClozeOpen)
         THEN ReplaceClozeAt(s, i, out, ClozeEnd(s, i + Len(ClozeOpen)))
         ELSE ReplaceCloze(s, i + 1, Append(out, s[i]))

\* result.replace(/(?<!\\)(\[\[|\]\])/g, "\\$1"): the look-behind reads the
\* character before the pair in the text being searched.
RECURSIVE EscapeLinks(_, _, _)
EscapeLinks(s, i, out) ==
    IF i > Len(s) THEN out
    ELSE IF /\ StartsAt(s, i, LinkOpen) \/ StartsAt(s, i, LinkClose)
            /\ (i = 1 \/ s[i - 1] # Backslash)
         THEN EscapeLinks(s, i + 2, out \o <<Backslash, s[i], s[i + 1]>>)
         ELSE EscapeLinks(s, i + 1, Append(out, s[i]))

\* result.trim()
RECURSIVE Trim(_)
Trim(s) ==
    IF s = <<>> THEN s
    ELSE IF s[1] \in {" ", "\n"} THEN Trim(Tail(s))
    ELSE IF s[Len(s)] \in {" ", "\n"} THEN Trim(SubSeq(s, 1, Len(s) - 1))
    ELSE s

Transformer(s) ==
    Trim(EscapeLinks(ReplaceCloze(ReplaceCardTag(s, 1, <<>>), 1, <<>>), 1, <<>>))

\* The texts the transformer is applied to.
MaxText == 4
MaxTokens == 3
MaxBody == 2

RECURSIVE Flatten(_)
Flatten(ts) == IF ts = <<>> THEN <<>> ELSE Head(ts) \o Flatten(Tail(ts))

TokenTexts(tokens, n) == {Flatten(ts) : ts \in UNION {[1..k -> tokens] : k \in 1..n}}

LinkTexts == UNION {[1..n -> {"[", "]", Backslash, "a"}] : n \in 0..MaxText}

ClozeBodies == TokenTexts({<<"a">>, <<" ">>, <<"c", "l", "o", "z", "e", " ">>}, MaxBody)

ClozeOf(X) == ClozeOpen \o X \o BraceClose

TagTexts ==
    TokenTexts({<<"Q">>, <<" ">>, CardTag, LinkOpen \o <<"c", "a", "r", "d">> \o LinkClose},
               MaxTokens)

TransformInputs ==
    [fn : {"transformer"}, kind : {"link"},  text : LinkTexts, out : {<<>>}]
    \cup [fn : {"transformer"}, kind : {"cloze"},
          text : {ClozeOf(X) : X \in ClozeBodies}, out : {<<>>}]
    \cup [fn : {"transformer"}, kind : {"tag"}, text : TagTexts, out : {<<>>}]

InitTransform ==
    /\ blocks = [b \in Blocks |-> Removed]
    /\ remoteCards = <<>>
    /\ remoteDecks = {}
    /\ nextId = 1
    /\ settings \in {st \in BuildSettings :
                        /\ ~st.includePageTitle /\ ~st.includeAncestorBlocks
                        /\ ~st.includePageProperties}
    /\ lastIndex = 0
    /\ pc = "idle"
    /\ run = NoRun
    /\ calls = NoCalls
    /\ insync = FALSE
    /\ changes = 0
    /\ faults = 0
    /\ probe \in TransformInputs
    /\ storage = <<>>

\* The transformer applied to the text, then to its own output.
Transform ==
    /\ probe.fn = "transformer"
    /\ Len(probe.out) < 2
    /\ probe' = [probe EXCEPT !.out =
                    Append(@, Transformer(IF @ = <<>> THEN probe.text ELSE @[Len(@)]))]
    /\ UNCHANGED <<blocks, remoteCards, remoteDecks, nextId, settings, lastIndex, pc, run, calls, insync, changes, faults, storage>>

NextTransform == Transform

SpecTransform == InitTransform /\ [][NextTransform]_vars

\* ------------------------------------------------------------- media attachments
\* The media loop of getMarkdownWithProperties in the revision with
\* attachments (src/unnamed/part_005): every local media reference of the
\* text is fetched, hashed and renamed.  A path and a hash are sequences of
\* characters.
MaxPath == 3

\* The index of the last occurrence of the character c in s, 0 if none.
LastIndexOf(s, c) ==
    LET at == {i \in 1..Len(s) : s[i] = c}
    IN  IF at = {} THEN 0 ELSE CHOOSE i \in at : \A j \in at : j <= i

\* s.split(c).pop() || ""
SplitPop(s, c) == SubSeq(s, LastIndexOf(s, c) + 1, Len(s))

\* The files of the graph's assets: what a fetch of the file returns.  The
\* file "big" is over MOCHI_MAX_ATTACHMENT_SIZE.
Files == {"b1", "b2", "big"}

\* crypto.subtle.digest("SHA-256", bytes) as hex digits (the digits after
\* the twelfth are left out).
Sha256Hex(bytes) ==
    IF bytes = "b1" THEN <<"0", "3", "a", "c", "6", "7", "4", "2", "1", "6", "f", "3">>
    ELSE IF bytes = "b2" THEN <<"e", "9", "d", "7", "1", "f", "5", "e", "e", "7", "c", "9">>
    ELSE <<"5", "f", "e", "c", "e", "b", "6", "6", "f", "f", "c", "8">>

\* Variant: the attachment keeps the name of the file after the hash.
newFilenameNamed(hash, path) ==
    SubSeq(hash, 1, 8) \o <<".">> \o SplitPop(path, "/")

\* const filename = path.split("/").pop() || "";
\* const ext = filename.split(".").pop() || "";
\* const newFilename = `${hash.slice(0, 8)}.${ext}`;
newFilename(hash, path) ==
    SubSeq(hash, 1, 8) \o <<".">> \o SplitPop(SplitPop(path, "/"), ".")

MediaPaths ==
    TokenTexts({<<"a">>, <<"/">>, <<".">>, <<"p", "n", "g">>}, MaxPath)

\* The media references of a text with two of them: the path of each and
\* the file it resolves to; one path resolves to one file.
MediaRefs ==
    {rs \in [{1, 2} -> [path : MediaPaths, bytes : Files]] :
        rs[1].path = rs[2].path => rs[1].bytes = rs[2].bytes}

InitAttach ==
    /\ blocks = [b \in Blocks |-> Removed]
    /\ remoteCards = <<>>
    /\ remoteDecks = {}
    /\ nextId = 1
    /\ settings \in {st \in BuildSettings :
                        /\ ~st.includePageTitle /\ ~st.includeAncestorBlocks
                        /\ ~st.includePageProperties}
    /\ lastIndex = 0
    /\ pc = "idle"
    /\ run = NoRun
    /\ calls = NoCalls
    /\ insync = FALSE
    /\ changes = 0
    /\ faults = 0
    /\ probe \in [fn : {"mediaAttachments"}, refs : MediaRefs, out : {<<>>}]
    /\ storage = <<>>

\* One turn of the while loop over the media references: an oversized file
\* is skipped, any other is pushed to mediaAttachments.
Attach ==
    /\ probe.fn = "mediaAttachments"
    /\ Len(probe.out) < Len(probe.refs)
    /\ LET ref == probe.refs[Len(probe.out) + 1]
       IN  probe' = [probe EXCEPT !.out = Append(@,
              IF ref.bytes = "big"
              THEN [skipped |-> TRUE, hash |-> <<>>, originalPath |-> ref.path,
                    filename |-> <<>>]
              ELSE [skipped |-> FALSE, hash |-> Sha256Hex(ref.bytes),
                    originalPath |-> ref.path,
                    filename |-> newFilename(Sha256Hex(ref.bytes), ref.path)])]
    /\ UNCHANGED <<blocks, remoteCards, remoteDecks, nextId, settings, lastIndex, pc, run, calls, insync, changes, faults, storage>>

NextAttach == Attach

SpecAttach == InitAttach /\ [][NextAttach]_vars

\* ------------------------------------------------------------- attachment upload
\* The calls of uploadAttachments that processLogseqCards makes for the
\* cards of a run (src/unnamed/part_005): for every attachment of the card a
\* check request, and an upload request when the check answers 404.  The
\* remote store keeps attachments per card.
AttachmentNames == {"f1", "f2"}

UploadCards ==
    [1..MaxBlocks -> UNION {[1..n -> AttachmentNames] : n \in 1..2}]

InitUpload ==
    /\ blocks = [b \in Blocks |-> Removed]
    /\ remoteCards = <<>>
    /\ remoteDecks = {}
    /\ nextId = 1
    /\ settings \in {st \in BuildSettings :
                        /\ ~st.includePageTitle /\ ~st.includeAncestorBlocks
                        /\ ~st.includePageProperties}
    /\ lastIndex = 0
    /\ pc = "idle"
    /\ run = NoRun
    /\ calls = NoCalls
    /\ insync = FALSE
    /\ changes = 0
    /\ faults = 0
    /\ probe \in {p \in [fn : {"uploadAttachments"}, cards : UploadCards,
                           mochiIds : [1..MaxBlocks -> {None, "R9"}],
                           card : {1}, at : {1}, phase : {"call"}, target : {None},
                           remote : {{}, {<<1, "f1">>}},
                           mutations : {<<>>}, checks : {<<>>}, uploads : {<<>>}] :
                      p.remote # {} => p.mochiIds[1] # None}
    /\ storage = <<>>

\* The next attachment of the card, or the first of the next card.
NextAttachment(p) ==
    IF p.at < Len(p.cards[p.card])
    THEN [p EXCEPT !.at = @ + 1, !.phase = "check"]
    ELSE [p EXCEPT !.card = @ + 1, !.at = 1, !.phase = "call", !.target = None]

\* Variant: a failed create or update call does not throw.
cardCallThrowsNever(ok) == FALSE

\* createMochiCard and updateMochiCard throw when the response is not ok,
\* and the catch of the loop body ends the turn of the card.
cardCallThrows(ok) == ~ok

\* The card's turn of processLogseqCards up to uploadAttachments: a block
\* whose mochi-id names a fetched card is updated under that id, any other
\* block gets a new card and the id the create call returns.
CardCall ==
    /\ probe.fn = "uploadAttachments"
    /\ probe.card <= Len(probe.cards)
    /\ probe.phase = "call"
    /\ \E ok \in Outcomes :
         /\ Fault(ok)
         /\ LET isNew == probe.mochiIds[probe.card] = None
                id    == IF ~ok THEN None
                         ELSE IF isNew THEN CardId(nextId) ELSE probe.mochiIds[probe.card]
                p     == [probe EXCEPT !.mutations =
                            Append(@, [card |-> probe.card, ok |-> ok, id |-> id,
                                       kind |-> IF isNew THEN "create" ELSE "update"])]
            IN  /\ probe' = IF cardCallThrows(ok)
                            THEN [p EXCEPT !.card = @ + 1, !.at = 1]
                            ELSE [p EXCEPT !.phase = "check", !.target = id]
                /\ nextId' = IF ok /\ isNew THEN nextId + 1 ELSE nextId
    /\ UNCHANGED <<blocks, remoteCards, remoteDecks, settings, lastIndex, pc, run, calls, insync, changes, storage>>

\* Variant: the upload follows every check that returned.
checkStatus404Ignored(ok, present) == ok

\* if (check.status === 404): the check returned and the file is not there.
checkStatus404(ok, present) == ok /\ ~present

\* const check = await fetch(url): a rejection is caught and logged, any
\* status other than 404 ends the turn.
CheckAttachment ==
    /\ probe.fn = "uploadAttachments"
    /\ probe.card <= Len(probe.cards)
    /\ probe.phase = "check"
    /\ \E ok \in Outcomes :
         /\ Fault(ok)
         /\ LET name == probe.cards[probe.card][probe.at]
                p    == [probe EXCEPT !.checks =
                            Append(@, [card |-> probe.card, filename |-> name, ok |-> ok])]
            IN  probe' = IF checkStatus404(ok, <<probe.card, name>> \in probe.remote)
                         THEN [p EXCEPT !.phase = "upload"]
                         ELSE NextAttachment(p)
    /\ UNCHANGED <<blocks, remoteCards, remoteDecks, nextId, settings, lastIndex, pc, run, calls, insync, changes, storage>>

\* const response = await fetch(url, { method: "POST", ... }): a failure is
\* logged and the loop goes on.
UploadAttachment ==
    /\ probe.fn = "uploadAttachments"
    /\ probe.card <= Len(probe.cards)
    /\ probe.phase = "upload"
    /\ \E ok \in Outcomes :
         /\ Fault(ok)
         /\ LET name == probe.cards[probe.card][probe.at]
            IN  probe' = NextAttachment([probe EXCEPT
                    !.uploads = Append(@, [card |-> probe.card, filename |-> name, ok |-> ok,
                                           id |-> probe.target]),
                    !.remote = IF ok THEN @ \cup {<<probe.card, name>>} ELSE @])
    /\ UNCHANGED <<blocks, remoteCards, remoteDecks, nextId, settings, lastIndex, pc, run, calls, insync, changes, storage>>

NextUpload == CardCall \/ CheckAttachment \/ UploadAttachment

SpecUpload == InitUpload /\ [][NextUpload]_vars

\* ------------------------------------------------------------- the remote calls of a run
\* The remote calls of one run of sync() in the order the code issues them
\* (src/unnamed/part_005), each with the time it is issued at and the time
\* span it is in flight for.  Every call site calls fetch() directly; the
\* run goes on when the awaited call has returned.
MaxTime == 2
WindowLength == 2      \* W, in ticks
WindowCalls == 2       \* K

WriteKinds == {"deckCreate", "create", "update", "delete", "upload"}

\* What the card loop issues for one card: create or update, then a check
\* and an upload for an attachment.
CardCalls == {<<"create">>, <<"create", "check", "upload">>, <<"update">>}

\* The awaited calls of a run after the first fetch: fetchDecks, the deck
\* creations, the deletions, the card loop.
CallPlans ==
    {<<"fetchDecks">> \o decks \o deletes \o Flatten(cards) :
        decks \in {<<>>, <<"deckCreate">>},
        deletes \in {<<>>, <<"delete">>},
        cards \in UNION {[1..n -> CardCalls] : n \in 0..MaxBlocks}}

InitCalls ==
    /\ blocks = [b \in Blocks |-> Removed]
    /\ remoteCards = <<>>
    /\ remoteDecks = {}
    /\ nextId = 1
    /\ settings \in {st \in BuildSettings :
                        /\ ~st.includePageTitle /\ ~st.includeAncestorBlocks
                        /\ ~st.includePageProperties}
    /\ lastIndex = 0
    /\ pc = "idle"
    /\ run = NoRun
    /\ calls = NoCalls
    /\ insync = FALSE
    /\ changes = 0
    /\ faults = 0
    /\ probe \in [fn : {"remoteCalls"}, plan : CallPlans, next : {0},
                  inflight : {{}}, now : {0}, log : {<<>>}]
    /\ storage = <<>>

\* Variant: the next call is issued without waiting for the one before.
NotAwaited(p) == TRUE

\* await: the code after a call runs when the call has returned.
Awaited(p) == p.inflight = {}

\* Promise.all([fetchMochiCards(), fetchLogseqCardBlocks(), fetchTemplates()]):
\* both remote reads are issued before either has returned.
StartFetch ==
    /\ probe.fn = "remoteCalls"
    /\ probe.next = 0
    /\ probe.log = <<>>
    /\ probe' = [probe EXCEPT
          !.log = <<[kind |-> "fetchCards", at |-> probe.now],
                    [kind |-> "fetchTemplates", at |-> probe.now]>>,
          !.inflight = {1, 2}]
    /\ UNCHANGED <<blocks, remoteCards, remoteDecks, nextId, settings, lastIndex, pc, run, calls, insync, changes, faults, storage>>

\* A call in flight returns.  When the reads of the first fetch have both
\* returned the run goes on with its plan; a rejected call of the first fetch
\* or of fetchDecks ends the run.
FinishCall ==
    /\ probe.fn = "remoteCalls"
    /\ \E i \in probe.inflight, ok \in Outcomes :
         /\ Fault(ok)
         /\ probe' = [probe EXCEPT
               !.inflight = @ \ {i},
               !.next = IF ~ok /\ probe.log[i].kind \in {"fetchCards", "fetchTemplates", "fetchDecks"}
                        THEN Len(probe.plan) + 1
                        ELSE IF @ = 0 /\ probe.inflight = {i} THEN 1 ELSE @]
    /\ UNCHANGED <<blocks, remoteCards, remoteDecks, nextId, settings, lastIndex, pc, run, calls, insync, changes, storage>>

\* The next awaited call of the run is issued: fetch(url, ...) at its call
\* site, with nothing between the call site and the request.
StartCall ==
    /\ probe.fn = "remoteCalls"
    /\ probe.next \in 1..Len(probe.plan)
    /\ Awaited(probe)
    /\ probe' = [probe EXCEPT
          !.log = Append(@, [kind |-> probe.plan[probe.next], at |-> probe.now]),
          !.inflight = @ \cup {Len(probe.log) + 1},
          !.next = @ + 1]
    /\ UNCHANGED <<blocks, remoteCards, remoteDecks, nextId, settings, lastIndex, pc, run, calls, insync, changes, faults, storage>>

\* Time passes.
Tick ==
    /\ probe.fn = "remoteCalls"
    /\ probe.now < MaxTime
    /\ probe' = [probe EXCEPT !.now = @ + 1]
    /\ UNCHANGED <<blocks, remoteCards, remoteDecks, nextId, settings, lastIndex, pc, run, calls, insync, changes, faults, storage>>

NextCalls == StartFetch \/ FinishCall \/ StartCall \/ Tick

SpecCalls == InitCalls /\ [][NextCalls]_vars

\* ---- two invocations of sync() in flight
\* index.ts starts `new MochiSync().sync()` on every trigger and keeps no
\* record of a run in progress.  The invocation that holds the thread is in
\* pc, run and calls; the other one, suspended at an await, is in probe.
\* Each of the two invocations runs once.  The remote store starts empty or
\* with cards of earlier runs whose blocks are gone.
InitReentry ==
    /\ blocks \in [Blocks -> {Block(b, None) : b \in Bodies} \cup {Removed}]
    /\ remoteCards \in {<<>>, LeftCards}
    /\ remoteDecks = {}
    /\ nextId = 1
    /\ settings \in {st \in SettingsChoices :
                        /\ st.mochiApiKey = "key" /\ st.defaultDeck = "D1"
                        /\ ~st.includePageProperties}
    /\ lastIndex = 0
    /\ pc = "idle"
    /\ run = NoRun
    /\ calls = NoCalls
    /\ insync = FALSE
    /\ changes = 0
    /\ faults = 0
    /\ probe = [fn |-> "sync", pc |-> "idle", run |-> NoRun, calls |-> NoCalls]
    /\ storage = <<>>

\* The running invocation reaches an await and the other one resumes.
SwitchRun ==
    /\ probe.fn = "sync"
    /\ pc # "idle" \/ probe.pc # "idle"
    /\ pc' = probe.pc
    /\ run' = probe.run
    /\ calls' = probe.calls
    /\ probe' = [probe EXCEPT !.pc = pc, !.run = run, !.calls = calls]
    /\ UNCHANGED <<blocks, remoteCards, remoteDecks, nextId, settings, lastIndex, insync, changes, faults, storage>>

NextReentry ==
    \/ SyncStart \/ Fetch \/ ManageDecks \/ CreateDeck \/ EnterSyncCards
    \/ EnterPhase \/ DeleteOrphan \/ LeavePhase \/ ProcessCard \/ Report
    \/ SwitchRun

SpecReentry == InitReentry /\ [][NextReentry]_vars

\* ---- the tag and field comparisons of cardNeedsUpdate
MaxTags == 2
MaxFields == 2

\* card.tags after split(",") and trim: any list of names, repeats included.
LocalTags == UNION {[1..n -> {"a", "b"}] : n \in 0..MaxTags}

\* The manual-tags of the remote card.
RemoteTags == UNION {[1..n -> {"a", "b", "logseq"}] : n \in 0..MaxTags + 1}

\* A field object as its entries in insertion order, one entry per field id;
\* `present` is false when the card has no fields property.
FieldEntries == [id : {"f1", "f2"}, value : {"v", "w"}]

NoFields == [present |-> FALSE, entries |-> <<>>]

FieldObjects ==
    {[present |-> TRUE, entries |-> f] :
        f \in {g \in UNION {[1..n -> FieldEntries] : n \in 0..MaxFields} :
                  \A i, j \in 1..Len(g) : i # j => g[i].id # g[j].id}}
    \cup {NoFields}

\* JSON.stringify of a field object: the entries in insertion order between
\* braces; undefined for undefined.
RECURSIVE JsonEntries(_)
JsonEntries(f) ==
    IF f = <<>> THEN <<>>
    ELSE <<f[1].id, ":", "id", f[1].id, "value", f[1].value>>
         \o (IF Len(f) > 1 THEN <<",">> ELSE <<>>) \o JsonEntries(Tail(f))

JsonStringify(f) ==
    IF ~f.present THEN <<Undef>> ELSE <<"{">> \o JsonEntries(f.entries) \o <<"}">>

\* fieldsChanged of cardNeedsUpdate: `currentCard.fields ? ... : ...`; an
\* object, empty or not, is truthy.
fieldsChanged(current, existing) ==
    IF current.present
    THEN JsonStringify(current) # JsonStringify(existing)
    ELSE existing.present

PartsCard ==
    buildCard(Block(CHOOSE b \in Bodies : b.lines = <<Q1>> /\ b.children = <<>>, None),
              CHOOSE st \in SettingsChoices : ~st.includePageProperties, 0)

InitParts ==
    /\ blocks = [b \in Blocks |-> Removed]
    /\ remoteCards = <<>>
    /\ remoteDecks = {}
    /\ nextId = 1
    /\ settings \in {st \in BuildSettings :
                        /\ ~st.includePageTitle /\ ~st.includeAncestorBlocks
                        /\ ~st.includePageProperties}
    /\ lastIndex = 0
    /\ pc = "idle"
    /\ run = NoRun
    /\ calls = NoCalls
    /\ insync = FALSE
    /\ changes = 0
    /\ faults = 0
    /\ probe \in [fn : {"tagsChanged"}, local : LocalTags, remote : RemoteTags,
                  done : {FALSE}, out : {FALSE}]
                 \cup [fn : {"fieldsChanged"}, local : FieldObjects, remote : FieldObjects,
                       done : {FALSE}, out : {FALSE}]
    /\ storage = <<>>

\* cardNeedsUpdate on a card and a remote card equal in content and deck.
CompareTags ==
    /\ probe.fn = "tagsChanged"
    /\ ~probe.done
    /\ probe' = [probe EXCEPT
                   !.done = TRUE,
                   !.out = cardNeedsUpdate([PartsCard EXCEPT !.tags = probe.local],
                                           [content |-> PartsCard.content,
                                            deck |-> DeckId("D1"),
                                            tags |-> probe.remote],
                                           ("D1" :> DeckId("D1")), settings)]
    /\ UNCHANGED <<blocks, remoteCards, remoteDecks, nextId, settings, lastIndex, pc, run, calls, insync, changes, faults, storage>>

CompareFields ==
    /\ probe.fn = "fieldsChanged"
    /\ ~probe.done
    /\ probe' = [probe EXCEPT !.done = TRUE,
                              !.out = fieldsChanged(probe.local, probe.remote)]
    /\ UNCHANGED <<blocks, remoteCards, remoteDecks, nextId, settings, lastIndex, pc, run, calls, insync, changes, faults, storage>>

NextParts == CompareTags \/ CompareFields

SpecParts == InitParts /\ [][NextParts]_vars

\* ---- the media loop of getMarkdownWithProperties (attachment revision)
\* The paths of the media references: two files of the graph, a file URL and
\* a web URL.
MediaTargets ==
    { <<"p", ".", "g">>, <<"q", ".", "g">>,
      <<"f", "i", "l", "e", ":", "/", "/", "r", ".", "g">>,
      <<"h", ":", "/", "/", "u", ".", "g">> }

\* The references the regular expression finds in a text, in order: one or
\* two, each with its alt text, its path and the file the path resolves
\* to; one path resolves to one file.
MediaContents ==
    {rs \in UNION {[1..n -> [alt : {"x", "y"}, path : MediaTargets, bytes : Files]] :
                      n \in 1..2} :
        \A i, j \in 1..Len(rs) : rs[i].path = rs[j].path => rs[i].bytes = rs[j].bytes}

\* path.includes("://") && !path.startsWith("file://")
IsRemoteUrl(path) ==
    /\ Contains(path, <<":", "/", "/">>)
    /\ ~StartsAt(path, 1, <<"f", "i", "l", "e", ":", "/", "/">>)

\* blob.size > MOCHI_MAX_ATTACHMENT_SIZE
Oversized(bytes) == bytes = "big"

InitMedia ==
    /\ blocks = [b \in Blocks |-> Removed]
    /\ remoteCards = <<>>
    /\ remoteDecks = {}
    /\ nextId = 1
    /\ settings \in {st \in BuildSettings :
                        /\ ~st.includePageTitle /\ ~st.includeAncestorBlocks
                        /\ ~st.includePageProperties}
    /\ lastIndex = 0
    /\ pc = "idle"
    /\ run = NoRun
    /\ calls = NoCalls
    /\ insync = FALSE
    /\ changes = 0
    /\ faults = 0
    /\ probe \in {[fn |-> "mediaLoop", refs |-> rs, at |-> 1,
                   modifiedContent |-> [i \in 1..Len(rs) |-> [alt |-> rs[i].alt,
                                                              path |-> rs[i].path]],
                   mediaAttachments |-> <<>>, fetched |-> <<>>] : rs \in MediaContents}
    /\ storage = <<>>

\* modifiedContent.replace(fullMatch, text): the first occurrence of the
\* reference text is replaced.
ReplaceFirst(content, fullMatch, new) ==
    LET at == {i \in 1..Len(content) : content[i] = fullMatch}
    IN  IF at = {} THEN content
        ELSE [content EXCEPT ![CHOOSE i \in at : \A j \in at : i <= j] = new]

\* Variant: a skipped reference ends the loop.
continueLoopBreaks(p) == [p EXCEPT !.at = Len(p.refs) + 1]

\* `continue`: the loop goes to the next match.
continueLoop(p) == [p EXCEPT !.at = @ + 1]

\* One turn of the while loop over the matches: a web URL, a failed fetch
\* and an oversized file are skipped; any other file becomes an attachment
\* and its reference is rewritten to the new filename.
MediaTurn ==
    /\ probe.fn = "mediaLoop"
    /\ probe.at <= Len(probe.refs)
    /\ LET ref == probe.refs[probe.at]
       IN  IF IsRemoteUrl(ref.path)
           THEN /\ probe' = continueLoop(probe)
                /\ UNCHANGED faults
           ELSE \E ok \in Outcomes :
                  /\ Fault(ok)
                  /\ LET p == [probe EXCEPT !.fetched = Append(@, [at |-> probe.at, ok |-> ok])]
                         name == newFilename(Sha256Hex(ref.bytes), ref.path)
                     IN  probe' =
                           IF ~ok \/ Oversized(ref.bytes) THEN continueLoop(p)
                           ELSE [p EXCEPT
                                   !.at = @ + 1,
                                   !.mediaAttachments =
                                       Append(@, [hash |-> Sha256Hex(ref.bytes),
                                                  originalPath |-> ref.path,
                                                  filename |-> name]),
                                   !.modifiedContent =
                                       ReplaceFirst(@, [alt |-> ref.alt, path |-> ref.path],
                                                    [alt |-> ref.alt, path |-> name])]
    /\ UNCHANGED <<blocks, remoteCards, remoteDecks, nextId, settings, lastIndex, pc, run, calls, insync, changes, storage>>

NextMedia == MediaTurn

SpecMedia == InitMedia /\ [][NextMedia]_vars

\* ---- the pages of fetchMochiCards
MaxPages == 3

\* What the remote store serves: a page holds up to two cards, each tagged
\* logseq or not, and a bookmark or none.  The request after the last page
\* gets a page without docs.
PageDocs ==
    UNION {[1..n -> [tagged : BOOLEAN]] : n \in 0..2}

Pages == UNION {[1..n -> [docs : PageDocs, bookmark : BOOLEAN]] : n \in 1..MaxPages}

InitPages ==
    /\ blocks = [b \in Blocks |-> Removed]
    /\ remoteCards = <<>>
    /\ remoteDecks = {}
    /\ nextId = 1
    /\ settings \in {st \in BuildSettings :
                        /\ ~st.includePageTitle /\ ~st.includeAncestorBlocks
                        /\ ~st.includePageProperties}
    /\ lastIndex = 0
    /\ pc = "idle"
    /\ run = NoRun
    /\ calls = NoCalls
    /\ insync = FALSE
    /\ changes = 0
    /\ faults = 0
    /\ probe \in [fn : {"fetchMochiCards"}, pages : Pages, bookmark : {1},
                  mochiCards : {<<>>}, done : {FALSE}, threw : {FALSE}]
    /\ storage = <<>>

\* The pairs <<page, position>> of a set of positions of one page, in
\* ascending position.
RECURSIVE SetToSortedPairs(_)
SetToSortedPairs(ps) ==
    IF ps = {} THEN <<>>
    ELSE LET p == CHOOSE x \in ps : \A y \in ps : x[2] <= y[2]
         IN  <<p>> \o SetToSortedPairs(ps \ {p})

\* Variant: the test is made on the cards left by the filter.
docsEmptyAfterFilter(docs) == \A i \in 1..Len(docs) : ~docs[i].tagged

\* !data.docs || data.docs.length === 0
docsEmpty(docs) == docs = <<>>

\* One turn of the do/while loop: the page at the bookmark is requested; a
\* response that is not ok throws; a page without docs ends the loop;
\* otherwise the tagged cards are pushed and the loop goes on if the page
\* has a bookmark.
FetchPage ==
    /\ probe.fn = "fetchMochiCards"
    /\ ~probe.done
    /\ \E ok \in Outcomes :
         /\ Fault(ok)
         /\ LET data == IF probe.bookmark <= Len(probe.pages)
                        THEN probe.pages[probe.bookmark]
                        ELSE [docs |-> <<>>, bookmark |-> FALSE]
                found == {<<probe.bookmark, i>> :
                             i \in {k \in 1..Len(data.docs) : data.docs[k].tagged}}
            IN  probe' =
                  IF ~ok THEN [probe EXCEPT !.done = TRUE, !.threw = TRUE]
                  ELSE IF docsEmpty(data.docs) THEN [probe EXCEPT !.done = TRUE]
                  ELSE [probe EXCEPT
                          !.mochiCards = @ \o SetToSortedPairs(found),
                          !.bookmark = @ + 1,
                          !.done = ~data.bookmark]
    /\ UNCHANGED <<blocks, remoteCards, remoteDecks, nextId, settings, lastIndex, pc, run, calls, insync, changes, storage>>

NextPages == FetchPage

SpecPages == InitPages /\ [][NextPages]_vars

\* ------------------------------------------------------------- the id-map revision
\* sync() of the revision that keeps the remote ids in a stored map
\* (src/unnamed/part_003): block -> card id, loaded when the run starts and
\* saved when it ends.  No call of its card loop or of its deletion loop is
\* wrapped in a try: a failure there reaches the catch of sync().  Its blocks
\* hold text lines only, and line.match() keeps no state between lines.
PlainBodies == {b \in Bodies : \A i \in 1..Len(b.lines) : b.lines[i].kind = "text"}

InitIdMap ==
    /\ blocks \in [Blocks -> {Block(b, None) : b \in PlainBodies} \cup {Removed}]
    /\ remoteCards = <<>>
    /\ remoteDecks = {}
    /\ nextId = 1
    /\ settings \in {st \in SettingsChoices :
                        /\ st.mochiApiKey = "key" /\ st.defaultDeck = "D1"
                        /\ st.syncDeletedCards /\ ~st.includePageProperties}
    /\ lastIndex = 0
    /\ pc = "idle"
    /\ run = NoRun
    /\ calls = NoCalls
    /\ insync = FALSE
    /\ changes = 0
    /\ faults = 0
    /\ probe = NoProbe
    /\ storage = <<>>

\* sync(), up to the fetch: API key check, the stored id map is loaded.
IdMapStart ==
    /\ pc = "idle"
    /\ run' = [NoRun EXCEPT !.idMap = storage]
    /\ IF settings.mochiApiKey = None
       THEN /\ calls' = [NoCalls EXCEPT !.errors = 1, !.outcome = "config",
                                        !.startedInSync = insync]
            /\ pc' = "done"
       ELSE /\ calls' = [NoCalls EXCEPT !.startedInSync = insync]
            /\ pc' = "map:fetch"
    /\ UNCHANGED <<blocks, remoteCards, remoteDecks, nextId, settings, lastIndex, insync, changes, faults, probe, storage>>

\* Promise.all([fetchMochiCards(), datascriptQuery]).
IdMapFetch ==
    /\ pc = "map:fetch"
    /\ \E ok \in Outcomes :
         /\ Fault(ok)
         /\ IF ok
            THEN /\ run' = [run EXCEPT !.mochiCards = fetchMochiCards(remoteCards),
                                       !.logseqCards = fetchLogseqCardBlocks(blocks)]
                 /\ calls' = [calls EXCEPT !.net = @ + 1]
            ELSE /\ calls' = TopLevelError([calls EXCEPT !.net = @ + 1,
                                                         !.fetchFailed = TRUE])
                 /\ run' = run
         /\ pc' = AfterFetch(ok, "map:decks")
    /\ UNCHANGED <<blocks, remoteCards, remoteDecks, nextId, settings, lastIndex, insync, changes, probe, storage>>

\* Phase 1 of the revision: the default deck name first, then the deck name
\* of every card.
RECURSIVE IdMapDeckNames(_, _, _, _, _)
IdMapDeckName(card, cards, i, bl, st, names) ==
    IdMapDeckNames(cards, i + 1, bl, st,
                   IF card.deckname = None \/ card.deckname \in SeqToSet(names)
                   THEN names ELSE Append(names, card.deckname))

IdMapDeckNames(cards, i, bl, st, names) ==
    IF i > Len(cards) THEN names
    ELSE IdMapDeckName(buildCard(bl[cards[i].id], st, 0), cards, i, bl, st, names)

\* Phase 1 and the fetch of Phase 2: deck names, then fetchDecks.
IdMapDecks ==
    /\ pc = "map:decks"
    /\ \E ok \in Outcomes :
         /\ Fault(ok)
         /\ IF ok
            THEN \E names \in {IdMapDeckNames(run.logseqCards, 1, blocks, settings,
                                  IF settings.defaultDeck \in {None, Undef} THEN <<>>
                                  ELSE <<settings.defaultDeck>>)} :
                 LET deckMap == [n \in remoteDecks |-> DeckId(n)]
                 IN  /\ calls' = [calls EXCEPT !.net = @ + 1]
                     /\ run' = [run EXCEPT
                            !.deckMap = deckMap,
                            !.deckTodo = SelectSeq(names, LAMBDA n : n \notin DOMAIN deckMap)]
            ELSE /\ calls' = TopLevelError([calls EXCEPT !.net = @ + 1,
                                                         !.fetchFailed = TRUE])
                 /\ run' = run
         /\ pc' = AfterFetch(ok, "createDecks")
    /\ UNCHANGED <<blocks, remoteCards, remoteDecks, nextId, settings, lastIndex, insync, changes, probe, storage>>

\* The deck loop is over: the card loop starts.
IdMapEnterProcess ==
    /\ pc = "createDecks"
    /\ run.deckTodo = <<>>
    /\ run' = [run EXCEPT !.idx = 1]
    /\ pc' = "map:process"
    /\ UNCHANGED <<blocks, remoteCards, remoteDecks, nextId, settings, lastIndex, calls, insync, changes, faults, probe, storage>>

\* What one turn of the card loop does with its block: its id comes from the
\* id map, and only the content is compared.
IdMapBranch(card, mochiId, mochiCards, deckMap, st) ==
    [card   |-> card,
     deckId |-> ResolveDeck(card, deckMap, st),
     branch |-> IF mochiId # None /\ mochiId \in DOMAIN mochiCards
                THEN (IF mochiCards[mochiId].content # card.content
                      THEN "update" ELSE "noop")
                ELSE IF ResolveDeck(card, deckMap, st) = None THEN "createNoDeck"
                ELSE "create"]

\* What the stored map is after a turn that changed the run's id map: the
\* map is written by the setItem at the end of sync() only.
IdMapStored(idMap, old) == old

\* One turn of the card loop.  A throw of createMochiCard or updateMochiCard
\* ends the run in the catch of sync().
IdMapProcess ==
    /\ pc = "map:process"
    /\ run.idx <= Len(run.logseqCards)
    /\ \E d \in {IdMapBranch(buildCard(blocks[run.logseqCards[run.idx].id], settings, 0),
                             PropOf(run.idMap, run.logseqCards[run.idx].id),
                             run.mochiCards, run.deckMap, settings)} :
       LET b       == run.logseqCards[run.idx].id
           mochiId == PropOf(run.idMap, b)
           seen    == Log("processed", [block |-> b, mochiId |-> mochiId,
                                        deckname |-> d.card.deckname,
                                        branch |-> d.branch])
           known   == run.logseqMochiIds \cup ({mochiId} \ {None})
       IN  \/ /\ d.branch = "noop"
              /\ calls' = seen
              /\ run' = [run EXCEPT !.idx = @ + 1, !.logseqMochiIds = known]
              /\ pc' = pc
              /\ UNCHANGED <<remoteCards, nextId, faults, storage>>
           \/ /\ d.branch = "createNoDeck"
              /\ calls' = TopLevelError(seen)
              /\ run' = [run EXCEPT !.logseqMochiIds = known]
              /\ pc' = "done"
              /\ UNCHANGED <<remoteCards, nextId, faults, storage>>
           \/ /\ d.branch = "update"
              /\ \E ok \in Outcomes :
                   /\ Fault(ok)
                   /\ calls' = [(IF ok THEN seen ELSE TopLevelError(seen)) EXCEPT
                                  !.net = @ + 1,
                                  !.update = Append(@, [block |-> b, id |-> mochiId,
                                                        deck |-> None, ok |-> ok])]
                   /\ run' = [run EXCEPT !.idx = IF ok THEN @ + 1 ELSE @,
                                         !.updated = IF ok THEN @ + 1 ELSE @,
                                         !.logseqMochiIds = known]
                   /\ pc' = IF ok THEN pc ELSE "done"
                   /\ remoteCards' =
                         IF ok /\ mochiId \in DOMAIN remoteCards
                         THEN [remoteCards EXCEPT
                                 ![mochiId] = [@ EXCEPT !.content = d.card.content,
                                                        !.tags = SentTags(d.card)]]
                         ELSE remoteCards
              /\ UNCHANGED <<nextId, storage>>
           \/ /\ d.branch = "create"
              /\ \E ok \in Outcomes :
                   /\ Fault(ok)
                   /\ IF ok
                      THEN LET newId == CardId(nextId)
                           IN  /\ remoteCards' = (newId :> Sent(d.card, d.deckId)) @@ remoteCards
                               /\ nextId' = nextId + 1
                               /\ calls' = [seen EXCEPT !.net = @ + 1,
                                              !.create = Append(@, [block |-> b,
                                                   deck |-> d.deckId, id |-> newId])]
                               /\ run' = [run EXCEPT
                                      !.idx = @ + 1, !.created = @ + 1,
                                      !.idMap = (b :> newId) @@ @,
                                      !.logseqMochiIds = known \cup {newId}]
                               /\ storage' = IdMapStored((b :> newId) @@ run.idMap, storage)
                               /\ pc' = pc
                      ELSE /\ calls' = [TopLevelError(seen) EXCEPT !.net = @ + 1,
                                          !.create = Append(@, [block |-> b,
                                               deck |-> d.deckId, id |-> None])]
                           /\ run' = [run EXCEPT !.logseqMochiIds = known]
                           /\ pc' = "done"
                           /\ UNCHANGED <<remoteCards, nextId, storage>>
    /\ UNCHANGED <<blocks, remoteDecks, settings, lastIndex, insync, changes, probe>>

\* The card loop is over: the orphans are the fetched cards whose id the loop
\* has not met.
IdMapEnterDelete ==
    /\ pc = "map:process"
    /\ run.idx > Len(run.logseqCards)
    /\ run' = [run EXCEPT !.orphanTodo = DOMAIN run.mochiCards \ run.logseqMochiIds]
    /\ pc' = "map:delete"
    /\ UNCHANGED <<blocks, remoteCards, remoteDecks, nextId, settings, lastIndex, calls, insync, changes, faults, probe, storage>>

\* Variant: the id map is left as it is.
IdMapWithoutNothing(idMap, id) == idMap

\* "Clean up ID map": the first entry whose value is the deleted id goes.
IdMapWithout(idMap, id) ==
    IF \E k \in DOMAIN idMap : idMap[k] = id
    THEN LET k == CHOOSE k \in DOMAIN idMap :
                     idMap[k] = id /\ \A j \in DOMAIN idMap : idMap[j] = id => k <= j
         IN  [j \in DOMAIN idMap \ {k} |-> idMap[j]]
    ELSE idMap

\* One turn of the deletion loop; a throw of deleteMochiCard ends the run.
IdMapDelete ==
    /\ pc = "map:delete"
    /\ \E id \in run.orphanTodo, ok \in Outcomes :
         /\ Fault(ok)
         /\ calls' = [(IF ok THEN calls ELSE TopLevelError(calls)) EXCEPT
                        !.net = @ + 1,
                        !.delete = Append(@, [id |-> id, ok |-> ok])]
         /\ run' = [run EXCEPT !.orphanTodo = @ \ {id},
                               !.deleted = IF ok THEN @ + 1 ELSE @,
                               !.idMap = IF ok THEN IdMapWithout(@, id) ELSE @]
         /\ remoteCards' = IF ok THEN [i \in DOMAIN remoteCards \ {id} |-> remoteCards[i]]
                           ELSE remoteCards
         /\ pc' = IF ok THEN pc ELSE "done"
    /\ UNCHANGED <<blocks, remoteDecks, nextId, settings, lastIndex, insync, changes, probe, storage>>

\* setItem(MOCHI_ID_MAP_KEY, idMap) and the "Sync complete" message.
IdMapSave ==
    /\ pc = "map:delete"
    /\ run.orphanTodo = {}
    /\ storage' = run.idMap
    /\ calls' = [calls EXCEPT !.outcome = "complete",
                              !.report = <<run.created, run.updated, run.deleted>>]
    /\ pc' = "done"
    /\ UNCHANGED <<blocks, remoteCards, remoteDecks, nextId, settings, lastIndex, run, insync, changes, faults, probe>>

\* The user rewrites the text of a tagged block.
IdMapEdit ==
    /\ pc = "idle"
    /\ \E b \in Blocks, body \in PlainBodies :
         /\ blocks[b].tagged
         /\ blocks' = [blocks EXCEPT ![b] = Block(body, None)]
         /\ blocks' # blocks
    /\ insync' = FALSE
    /\ changes < MaxChanges
    /\ changes' = changes + 1
    /\ UNCHANGED <<remoteCards, remoteDecks, nextId, settings, lastIndex, pc, run, calls, faults, probe, storage>>

NextIdMap ==
    \/ IdMapStart \/ IdMapFetch \/ IdMapDecks \/ CreateDeck \/ IdMapEnterProcess
    \/ IdMapProcess \/ IdMapEnterDelete \/ IdMapDelete \/ IdMapSave \/ SyncReturn
    \/ IdMapEdit \/ UserRemove \/ RemoteLoss

SpecIdMap == InitIdMap /\ [][NextIdMap]_vars

\* ------------------------------------------------------------- properties
Done      == pc = "done"
Completed == pc = "done" /\ calls.outcome = "complete"

Ids(log) == {log[i].id : i \in 1..Len(log)} \ {None}
Count(log, id) == Cardinality({i \in 1..Len(log) : log[i].id = id})

\* The fetched remote cards that are the mochi-id of no fetched block.
Unreferenced ==
    {id \in DOMAIN run.mochiCards :
        \A i \in 1..Len(run.logseqCards) : run.logseqCards[i].mochiId # id}

\* C1: a run that starts right after a run that completed without error,
\* with the graph and the remote store unchanged since, issues no card
\* create, update or delete call and reports 0 created, 0 updated, 0 deleted.
C1_Idempotent ==
    calls.startedInSync =>
        /\ calls.create = <<>> /\ calls.update = <<>> /\ calls.delete = <<>>
        /\ Completed => calls.report = <<0, 0, 0>>

\* The blocks of the run whose mochi-id named no fetched remote card and
\* whose card was built.
Stale ==
    {i \in 1..Len(calls.processed) :
        /\ calls.processed[i].mochiId # None
        /\ calls.processed[i].mochiId \notin DOMAIN run.mochiCards
        /\ calls.processed[i].branch # "threw"}

CreatesOf(b) == {j \in 1..Len(calls.create) : calls.create[j].block = b}

\* C2: for a tagged block whose mochi-id names a card that is not among
\* the fetched remote cards, processLogseqCards takes the create branch and
\* never the update branch: no update request is issued for it, a create
\* request is issued for it once a deck id resolves, and the id a create
\* returns replaces the stale id on the block.
C2_StaleIdRecreated ==
    \A i \in Stale :
        LET e == calls.processed[i]
        IN  /\ e.branch \in {"create", "createNoDeck"}
            /\ \A j \in 1..Len(calls.update) : calls.update[j].block # e.block
            /\ e.branch = "create" => CreatesOf(e.block) # {}
            /\ \A j \in CreatesOf(e.block) :
                  calls.create[j].id # None =>
                     /\ calls.create[j].id # e.mochiId
                     /\ BlockProperty(blocks[e.block].lines, "mochi-id") = calls.create[j].id

C2_Witness ==
    \E i \in Stale :
        /\ calls.processed[i].branch = "create"
        /\ \E j \in CreatesOf(calls.processed[i].block) :
              /\ calls.create[j].id # None
              /\ BlockProperty(blocks[calls.processed[i].block].lines, "mochi-id")
                    = calls.create[j].id

\* C3: with syncDeletedCards set, a completed run has issued exactly one
\* delete call for every fetched remote card that no fetched block
\* references, and at no time more than one.
C3_OrphansDeleted ==
    settings.syncDeletedCards =>
        /\ \A id \in Unreferenced : Count(calls.delete, id) <= 1
        /\ Completed => \A id \in Unreferenced : Count(calls.delete, id) = 1

C3_Witness ==
    /\ Completed /\ settings.syncDeletedCards
    /\ \E id \in Unreferenced : Count(calls.delete, id) = 1

\* C4: with syncDeletedCards unset no delete call is issued, every fetched
\* remote card that no fetched block references stays in the remote store as
\* it was fetched, and the reported deleted count is 0.
C4_DeletionDisabled ==
    ~settings.syncDeletedCards =>
        /\ calls.delete = <<>>
        /\ \A id \in Unreferenced :
              id \in DOMAIN remoteCards /\ remoteCards[id] = run.mochiCards[id]
        /\ Completed => calls.report[3] = 0

C4_Witness ==
    /\ Completed /\ ~settings.syncDeletedCards
    /\ Unreferenced # {}
    /\ calls.report[3] = 0

\* C5: no delete call of a run targets an id that a create call of the same
\* run returned.
C5_NoDeleteOfCreated == Ids(calls.create) \cap Ids(calls.delete) = {}

C5_Witness ==
    /\ Completed
    /\ Ids(calls.create) # {}
    /\ Ids(calls.delete) # {}

Compared == probe.fn = "cardNeedsUpdate" /\ probe.done

SameContent == probe.card.content = probe.existing.content
SameDeck    == ResolveDeck(probe.card, probe.deckMap, settings) = probe.existing.deck
SameTags    == SentTags(probe.card) = probe.existing.tags

\* C6: cardNeedsUpdate answers "update" when the resolved deck id alone
\* differs from the remote card's, and when the content alone differs, the
\* other compared dimensions being identical.
C6_DeckOrContentAlone ==
    Compared =>
        /\ (~SameDeck /\ SameContent /\ SameTags) => probe.out
        /\ (SameDeck /\ ~SameContent /\ SameTags) => probe.out

C6_Witness == Compared /\ ~SameDeck /\ SameContent /\ SameTags /\ probe.out

\* C7: an error while one block is processed does not end the loop of
\* processLogseqCards: every fetched block is processed, in order, and the
\* run completes.
C7_FailureIsolated ==
    calls.cardErrors # <<>> =>
        /\ calls.outcome # "failed"
        /\ Done =>
              /\ calls.outcome = "complete"
              /\ Len(calls.processed) = Len(run.logseqCards)
              /\ \A i \in 1..Len(calls.processed) :
                    calls.processed[i].block = run.logseqCards[i].id

C7_Witness ==
    /\ Completed
    /\ Len(calls.processed) = 2
    /\ calls.cardErrors = << calls.processed[1].block >>
    /\ calls.processed[2].branch = "create"
    /\ \E j \in CreatesOf(calls.processed[2].block) : calls.create[j].id # None

\* C8: when the fetch of the remote cards or of the decks fails the run
\* ends at once with exactly one top-level error: no deck is created, no
\* card is created, updated or deleted, no id is written back.
C8_FetchFailureAborts ==
    calls.fetchFailed =>
        /\ Done /\ calls.outcome = "failed" /\ calls.errors = 1
        /\ calls.deckCreate = <<>> /\ calls.create = <<>> /\ calls.update = <<>>
        /\ calls.delete = <<>> /\ calls.writeBack = <<>>

C8_Witness == calls.fetchFailed /\ Done /\ calls.net = 2 /\ calls.errors = 1

MissingSetting == settings.mochiApiKey = None \/ settings.defaultDeck \in {None, Undef}

\* C9: with the API key or the default deck name missing, the run issues no
\* network call and ends with a single error message.
C9_ConfigurationAborts ==
    MissingSetting =>
        /\ calls.net = 0
        /\ Done => calls.outcome = "config" /\ calls.errors = 1

\* C11: when buildCard throws for a tagged block, that block is skipped and
\* the run goes on: it is not ended by the top-level error, and it completes
\* with every fetched block visited by processLogseqCards.
C11_TransformErrorSkipped ==
    calls.buildThrew =>
        /\ calls.outcome # "failed"
        /\ Done => Completed /\ Len(calls.processed) = Len(run.logseqCards)

\* C12: when the run is over, the id returned by every successful create of
\* the run is recorded for its block (here: in the stored id map), whatever
\* happened later in the run, so that the next run finds it.
C12_RemoteIdRecorded ==
    Done => \A j \in 1..Len(calls.create) :
                calls.create[j].id # None =>
                    PropOf(storage, calls.create[j].block) = calls.create[j].id

\* The value the lines of a block give to key k: the last `k::` line.
OwnValue(ls, k) ==
    LET at == {i \in 1..Len(ls) : ls[i].kind = "prop" /\ ls[i].key = k}
    IN  IF at = {} THEN None
        ELSE ls[CHOOSE i \in at : \A j \in at : j <= i].val

BuiltKeys == {"mochi-deck", "mochi-tags", "mochi-id"}

\* C13: for every card buildCard returns, a property the block itself sets
\* has the block's value in the card's properties, whatever the page and the
\* ancestors set for it.
C13_BlockValueWins ==
    \A n \in 1..Len(probe.built) : \A k \in BuiltKeys :
        LET blk == blocks[BuildTurn(n)]
        IN  (~probe.built[n].threw /\ OwnValue(blk.lines, k) # None)
                => PropOf(probe.built[n].properties, k) = OwnValue(blk.lines, k)

\* C14: the mochiId of every card buildCard returns is the value of the
\* tagged block's own mochi-id line (none when the block has no such line),
\* whatever mochi-id the ancestors carry.
C14_OwnIdOnly ==
    \A n \in 1..Len(probe.built) :
        probe.built[n].mochiId = OwnValue(blocks[BuildTurn(n)].lines, "mochi-id")

\* A card was built for a block without a mochi-id under a parent whose
\* mochi-id was merged into the card's properties; another for a block with
\* its own mochi-id under such a parent.
C14_Witness ==
    /\ \E n \in 1..Len(probe.built) :
         /\ PropOf(probe.built[n].properties, "mochi-id") = "R9"
         /\ probe.built[n].mochiId = None
    /\ \E n \in 1..Len(probe.built) :
         /\ PropOf(probe.built[n].properties, "mochi-id") = "R9"
         /\ probe.built[n].mochiId = "R1"

\* The pairs of the property lines of a text, in line order, and its other
\* lines, in line order.
PairsOf(ls) ==
    LET ps == SelectSeq(ls, LAMBDA l : l.kind = "prop")
    IN  [i \in 1..Len(ps) |-> [key |-> ps[i].key, value |-> ps[i].val]]

OtherLinesOf(ls) == SelectSeq(ls, LAMBDA l : l.kind # "prop")

\* C15: every call of getMarkdownWithProperties returns the pairs of all the
\* property lines of its text, in line order, and a content made of all the
\* other lines, in line order, and of nothing else.
C15_EveryPropertyExtracted ==
    \A n \in 1..Len(probe.out) :
        /\ probe.out[n].props = PairsOf(probe.texts[n])
        /\ probe.out[n].content = OtherLinesOf(probe.texts[n])

\* C16: two cards built for the same block in the same graph under the same
\* settings (by manageDecks and by processLogseqCards) have the same content
\* and the same properties.
C16_SameBlockSameCard ==
    \A n, m \in 1..Len(probe.built) :
        BuildTurn(n) = BuildTurn(m) =>
            /\ probe.built[n].content = probe.built[m].content
            /\ probe.built[n].properties = probe.built[m].properties

\* C17: the transformer rewrites {{cloze X}} to {{X}}, and applied to that
\* output it returns it unchanged, for every cloze body X.
C17_ClozeRoundTrip ==
    \A X \in ClozeBodies :
        (probe.fn = "transformer" /\ probe.kind = "cloze" /\ probe.text = ClozeOf(X)) =>
            /\ Len(probe.out) >= 1 => probe.out[1] = BraceOpen \o X \o BraceClose
            /\ Len(probe.out) = 2 => probe.out[2] = probe.out[1]

\* C18: for every text over [, ], \ and a letter, the transformer applied to
\* its own output adds no backslash: the second output is the first.
C18_EscapeIdempotent ==
    (probe.fn = "transformer" /\ probe.kind = "link" /\ Len(probe.out) = 2) =>
        probe.out[2] = probe.out[1]

\* The card-tag marker in the bracketed form, as written or escaped.
BracketedCard ==
    {LinkOpen \o <<"c", "a", "r", "d">> \o LinkClose,
     LinkOpen \o <<"c", "a", "r", "d", Backslash>> \o LinkClose}

\* C19: the output of the transformer holds the card-tag marker in neither
\* of its forms, #card and [[card]].
C19_CardTagRemoved ==
    (probe.fn = "transformer" /\ probe.kind = "tag" /\ Len(probe.out) >= 1) =>
        /\ ~Contains(probe.out[1], CardTag)
        /\ \A m \in BracketedCard : ~Contains(probe.out[1], m)

\* Two attachments were made, of two references that resolve to the same
\* bytes.
SameBytesAttached ==
    /\ probe.fn = "mediaAttachments"
    /\ Len(probe.out) = Len(probe.refs)
    /\ \A n \in 1..Len(probe.out) : ~probe.out[n].skipped
    /\ probe.refs[1].bytes = probe.refs[2].bytes

\* C20, as stated: two references that resolve to the same bytes get the same
\* attachment filename, whatever their paths.
C20_SameBytesSameName ==
    SameBytesAttached => probe.out[1].filename = probe.out[2].filename

\* C20, amended: two references that resolve to the same bytes get the same
\* attachment filename when the text after the last dot of the last path
\* segment (the whole segment when it has no dot) is the same in both,
\* whatever the directories and the rest of the names.
C20_SameBytesSameExtension ==
    (/\ SameBytesAttached
     /\ SplitPop(SplitPop(probe.refs[1].path, "/"), ".")
            = SplitPop(SplitPop(probe.refs[2].path, "/"), "."))
        => probe.out[1].filename = probe.out[2].filename

\* The file a.png and the file png of the directory a, of the same bytes,
\* were given one filename.
C20_Witness ==
    /\ SameBytesAttached
    /\ probe.refs[1].path = <<"a", ".", "p", "n", "g">>
    /\ probe.refs[2].path = <<"a", "/", "p", "n", "g">>
    /\ probe.out[1].filename = probe.out[2].filename
    /\ probe.out[1].filename = <<"0", "3", "a", "c", "6", "7", "4", "2", ".", "p", "n", "g">>

\* C21: within one run at most one upload call is issued for an attachment
\* filename, whether its references are in one card or in two.
C21_OneUploadPerFilename ==
    probe.fn = "uploadAttachments" =>
        \A i, j \in 1..Len(probe.uploads) :
            probe.uploads[i].filename = probe.uploads[j].filename => i = j

\* C22: in every window of WindowLength ticks at most WindowCalls remote
\* calls of the run are issued.
C22_WindowBounded ==
    probe.fn = "remoteCalls" =>
        \A t \in 0..MaxTime :
            Cardinality({i \in 1..Len(probe.log) :
                            probe.log[i].at <= t /\ t - WindowLength < probe.log[i].at})
                <= WindowCalls

\* C23: while a write call of the run is in flight no other call of the run
\* is in flight.
C23_WritesOneAtATime ==
    probe.fn = "remoteCalls" =>
        \A i \in probe.inflight :
            probe.log[i].kind \in WriteKinds => probe.inflight = {i}

\* An upload is in flight after the card's create has returned.
C23_Witness ==
    /\ probe.fn = "remoteCalls"
    /\ \E i \in probe.inflight : probe.log[i].kind = "upload"
    /\ \E j \in 1..Len(probe.log) : probe.log[j].kind = "create" /\ j \notin probe.inflight

\* The step issues a call of the kind logged in the field.
Issues(field) == Len(calls'[field]) > Len(calls[field])

\* C24: within a run no deck-create call follows a card create or update
\* call, no card create or update call follows an orphan delete call, and no
\* remote call follows the report of the counts.
C24_PhaseOrder ==
    [][/\ Issues("deckCreate") => calls.create = <<>> /\ calls.update = <<>>
       /\ (Issues("create") \/ Issues("update")) => calls.delete = <<>>
       /\ calls.report # <<>> => calls'.net <= calls.net]_vars

\* C25: with includeAncestorBlocks off, a property that the block itself
\* does not set is not in the properties of its card, so the card's deck and
\* tags are not taken from an ancestor.
C25_AncestorsOnlyIfEnabled ==
    (probe.fn = "buildCard" /\ ~settings.includeAncestorBlocks) =>
        \A n \in 1..Len(probe.built) :
            LET blk == blocks[BuildTurn(n)]
            IN  ~probe.built[n].threw =>
                  /\ \A k \in BuiltKeys :
                        OwnValue(blk.lines, k) = None =>
                            PropOf(probe.built[n].properties, k) = None
                  /\ OwnValue(blk.lines, "mochi-deck") = None =>
                        probe.built[n].deckname = None

\* The chunks of a card from the first `---` chunk on.
RECURSIVE FromDelimiter(_)
FromDelimiter(chunks) ==
    IF chunks = <<>> \/ Head(chunks) = <<Text("---", FALSE)>> THEN chunks
    ELSE FromDelimiter(Tail(chunks))

DeleteIssued == Len(calls'.delete) = Len(calls.delete) + 1

Referenced(id) ==
    \E b \in Blocks : blocks[b].tagged /\ BlockProperty(blocks[b].lines, "mochi-id") = id

\* C28: a run issues a delete call only for a remote card that carries the
\* tag logseq and whose id is the mochi-id of no tagged block; a remote card
\* without the tag, and a remote card that a tagged block names, is never
\* removed from the remote store by a run.
C28_DeletePrecondition ==
    [][/\ \A id \in {calls'.delete[j].id : j \in 1..Len(calls'.delete)} :
            (DeleteIssued /\ id = calls'.delete[Len(calls'.delete)].id) =>
                /\ id \in DOMAIN remoteCards
                /\ "logseq" \in SeqToSet(remoteCards[id].tags)
                /\ ~Referenced(id)
       /\ \A id \in DOMAIN remoteCards :
            (pc # "idle" /\ ("logseq" \notin SeqToSet(remoteCards[id].tags) \/ Referenced(id)))
                => id \in DOMAIN remoteCards']_vars

\* A run has deleted an orphan while the remote store holds a card without
\* the tag and a tagged block names another card.
C28_Witness ==
    /\ Completed
    /\ \E j \in 1..Len(calls.delete) : calls.delete[j].ok
    /\ \E id \in DOMAIN remoteCards : "logseq" \notin SeqToSet(remoteCards[id].tags)

\* The successful create calls the two invocations in flight have logged for
\* block b.
CreatedFor(b) ==
    {<<1, j>> : j \in {k \in 1..Len(calls.create) :
                          calls.create[k].block = b /\ calls.create[k].id # None}}
    \cup
    {<<2, j>> : j \in {k \in 1..Len(probe.calls.create) :
                          probe.calls.create[k].block = b /\ probe.calls.create[k].id # None}}

\* C29: when sync is triggered while an earlier run is in progress, at most
\* one card is created for a block that had no remote id, and once both
\* runs are over the block's mochi-id names that card.
C29_OneCardPerBlock ==
    probe.fn = "sync" =>
        \A b \in Blocks :
            /\ Cardinality(CreatedFor(b)) <= 1
            /\ (pc = "done" /\ probe.pc = "done" /\ CreatedFor(b) # {} /\ blocks[b].tagged)
                   => BlockProperty(blocks[b].lines, "mochi-id") \in DOMAIN remoteCards

\* No remote call of the run failed.
NoCallFailed ==
    /\ ~calls.fetchFailed
    /\ \A j \in 1..Len(calls.deckCreate) : calls.deckCreate[j].ok
    /\ \A j \in 1..Len(calls.create) : calls.create[j].id # None
    /\ \A j \in 1..Len(calls.update) : calls.update[j].ok
    /\ \A j \in 1..Len(calls.delete) : calls.delete[j].ok

\* The card of block b as a build from the block gives it, with the deck id
\* the run resolved for it.
BuiltFrom(b) ==
    LET card == buildCard(blocks[b], settings, 0)
    IN  Sent(card, ResolveDeck(card, run.deckMap, settings))

\* C30: after a completed run in which no remote call failed, every tagged
\* block names an existing remote card whose content, deck id and tags are
\* the ones built from the block.
C30_Converged ==
    (Completed /\ NoCallFailed) =>
        \A b \in Blocks :
            blocks[b].tagged =>
                LET id == BlockProperty(blocks[b].lines, "mochi-id")
                IN  /\ id \in DOMAIN remoteCards
                    /\ remoteCards[id] = BuiltFrom(b)

\* The number of entries of a call log that succeeded.
Succeeded(log, Ok(_)) == Cardinality({j \in 1..Len(log) : Ok(log[j])})

\* C31: the counts a completed run reports are the number of create calls
\* that returned an id (written back to the block), the number of update
\* calls that succeeded and the number of delete calls that succeeded.
C31_CountsExact ==
    Completed =>
        calls.report = << Succeeded(calls.create, LAMBDA e : e.id # None),
                          Succeeded(calls.update, LAMBDA e : e.ok),
                          Succeeded(calls.delete, LAMBDA e : e.ok) >>

\* A completed run with a failed call and a successful call of the same kind,
\* or with a failed create or update.
C31_Witness ==
    /\ Completed
    /\ \/ \E j \in 1..Len(calls.delete) : ~calls.delete[j].ok
       \/ \E j \in 1..Len(calls.create) : calls.create[j].id = None
       \/ \E j \in 1..Len(calls.update) : ~calls.update[j].ok
    /\ calls.report # <<0, 0, 0>>

\* C32: cardNeedsUpdate reports a tag change exactly when the set of the
\* local tags plus logseq differs from the set of the remote manual-tags,
\* whatever the order and the repeats of the tags on either side.
C32_TagSetEquality ==
    (probe.fn = "tagsChanged" /\ probe.done) =>
        (probe.out <=>
            SeqToSet(probe.local) \cup {"logseq"} # SeqToSet(probe.remote))

\* A field object as a map from field id to value; no object is no field.
FieldMap(f) == {<<f.entries[i].id, f.entries[i].value>> : i \in 1..Len(f.entries)}

\* C33: cardNeedsUpdate reports a field change exactly when some field id
\* has a value on one side and another value or none on the other; no local
\* fields against an empty or absent remote field map is no change.
C33_FieldByField ==
    (probe.fn = "fieldsChanged" /\ probe.done) =>
        (probe.out <=> FieldMap(probe.local) # FieldMap(probe.remote))

\* The number of attachments of the cards among the first n whose create
\* or update call succeeded.
RECURSIVE AttachmentCount(_, _)
AttachmentCount(p, n) ==
    IF n = 0 THEN 0
    ELSE (IF p.mutations[n].ok THEN Len(p.cards[p.mutations[n].card]) ELSE 0)
         + AttachmentCount(p, n - 1)

UploadsDone == probe.fn = "uploadAttachments" /\ probe.card > Len(probe.cards)

\* C34: an upload call is issued only right after a check of the same
\* attachment that returned and found the filename absent on that card; a
\* failed check or upload does not end the loop: when the cards are done
\* every attachment of every created or updated card has had its check.
C34_CheckBeforeUpload ==
    [][probe.fn = "uploadAttachments" =>
         /\ Len(probe'.uploads) > Len(probe.uploads) =>
              LET u == probe'.uploads[Len(probe'.uploads)]
                  c == probe.checks[Len(probe.checks)]
              IN  /\ probe.checks # <<>>
                  /\ c.card = u.card /\ c.filename = u.filename /\ c.ok
                  /\ <<u.card, u.filename>> \notin probe.remote
                  /\ Len(probe.uploads) < Len(probe.checks)
         /\ UploadsDone' =>
              Len(probe'.checks) = AttachmentCount(probe', Len(probe'.mutations))]_vars

\* The loop is over; a check or an upload failed, a later attachment was
\* uploaded, and an attachment found present was not.
C34_Witness ==
    /\ UploadsDone
    /\ \E i \in 1..Len(probe.checks), k \in 1..Len(probe.uploads) :
          /\ \/ ~probe.checks[i].ok
             \/ \E j \in 1..Len(probe.uploads) : j < k /\ ~probe.uploads[j].ok
          /\ probe.uploads[k].ok
          /\ \/ probe.uploads[k].card > probe.checks[i].card
             \/ probe.uploads[k].filename # probe.checks[i].filename
    /\ Len(probe.checks) > Len(probe.uploads) + 1

\* C35: an attachment upload of a card is issued only after a successful
\* create or update call of that card and is addressed to the id that the
\* create call returned, or to the block's mochi-id for an update; a card
\* whose create or update call failed has no attachment call at all.
C35_UploadAfterCardCall ==
    probe.fn = "uploadAttachments" =>
        /\ \A k \in 1..Len(probe.uploads) :
              \E j \in 1..Len(probe.mutations) :
                  LET m == probe.mutations[j]
                      u == probe.uploads[k]
                  IN  /\ m.card = u.card /\ m.ok /\ u.id = m.id /\ m.id # None
                      /\ m.kind = "update" => m.id = probe.mochiIds[m.card]
                      /\ m.kind = "create" => m.id \notin {"R9"}
        /\ \A j \in 1..Len(probe.mutations) :
              ~probe.mutations[j].ok =>
                  /\ \A k \in 1..Len(probe.uploads) :
                        probe.uploads[k].card # probe.mutations[j].card
                  /\ \A k \in 1..Len(probe.checks) :
                        probe.checks[k].card # probe.mutations[j].card

\* The call of the first card failed, the second card was created and its
\* attachment went to the new id.
C35_Witness ==
    /\ UploadsDone
    /\ Len(probe.mutations) = 2
    /\ ~probe.mutations[1].ok
    /\ probe.mutations[2].kind = "create"
    /\ \E k \in 1..Len(probe.uploads) :
          probe.uploads[k].card = 2 /\ probe.uploads[k].id = probe.mutations[2].id

MediaDone == probe.fn = "mediaLoop" /\ probe.at > Len(probe.refs)

Rejected(ref) == IsRemoteUrl(ref.path) \/ Oversized(ref.bytes)

\* The references of the text whose file was fetched and accepted.
Accepted ==
    {i \in 1..Len(probe.refs) :
        /\ ~Rejected(probe.refs[i])
        /\ \E k \in 1..Len(probe.fetched) : probe.fetched[k].at = i /\ probe.fetched[k].ok}

\* C36: when the media loop is over, a reference to a web URL or to a file
\* over the size limit has no attachment and stands in the content as it
\* was; the file of every other reference has been asked for, and every
\* reference whose file was fetched and accepted has its attachment and its
\* rewritten reference.
C36_RejectionNonFatal ==
    MediaDone =>
        /\ \A i \in 1..Len(probe.refs) :
              Rejected(probe.refs[i]) =>
                  /\ probe.modifiedContent[i] = [alt |-> probe.refs[i].alt,
                                                 path |-> probe.refs[i].path]
                  /\ \A k \in 1..Len(probe.mediaAttachments) :
                        probe.mediaAttachments[k].originalPath # probe.refs[i].path
        /\ \A i \in 1..Len(probe.refs) :
              ~IsRemoteUrl(probe.refs[i].path) =>
                  \E k \in 1..Len(probe.fetched) : probe.fetched[k].at = i
        /\ Len(probe.mediaAttachments) = Cardinality(Accepted)
        /\ \A i \in Accepted :
              \E k \in 1..Len(probe.mediaAttachments) :
                  /\ probe.mediaAttachments[k].originalPath = probe.refs[i].path
                  /\ \E j \in 1..Len(probe.modifiedContent) :
                        probe.modifiedContent[j] =
                            [alt |-> probe.refs[i].alt,
                             path |-> probe.mediaAttachments[k].filename]

\* A rejected first reference followed by an accepted second one.
C36_Witness ==
    /\ MediaDone
    /\ Len(probe.refs) = 2
    /\ Rejected(probe.refs[1])
    /\ 2 \in Accepted
    /\ probe.modifiedContent[2].path = probe.mediaAttachments[1].filename

\* The deck names a run can need: the mochi-deck of a fetched block and the
\* default deck.
NeededNames ==
    {BlockProperty(blocks[run.logseqCards[i].id].lines, "mochi-deck") :
        i \in 1..Len(run.logseqCards)} \cup {settings.defaultDeck}

\* The names manageDecks has tried to create or has yet to try.
CreateNames ==
    SeqToSet(run.deckTodo) \cup {calls.deckCreate[j].name : j \in 1..Len(calls.deckCreate)}

\* C37: a deck-create call is issued only for a needed deck name that is not
\* among the decks of the remote store, and is the first for that name in the
\* run; after a call, failed or not, the names still to create are the ones
\* that were, less the one called for.
C37_CreatesOnlyMissing ==
    [][Len(calls'.deckCreate) > Len(calls.deckCreate) =>
          LET name == calls'.deckCreate[Len(calls'.deckCreate)].name
          IN  /\ name \in NeededNames
              /\ name \notin remoteDecks
              /\ \A j \in 1..Len(calls.deckCreate) : calls.deckCreate[j].name # name
              /\ CreateNames' = CreateNames
              /\ name \notin SeqToSet(run'.deckTodo)
              /\ pc' = "createDecks"]_vars

\* A failed deck-create call followed by a successful one.
C37_Witness ==
    /\ Len(calls.deckCreate) = 2
    /\ ~calls.deckCreate[1].ok
    /\ calls.deckCreate[2].ok
    /\ calls.deckCreate[2].name \in remoteDecks

\* C38: a run in which a delete call failed is not ended by it: every
\* fetched remote card that no fetched block references has had its delete
\* call, and every fetched block has had its turn in the card loop.
C38_DeleteFailureCaught ==
    (\E j \in 1..Len(calls.delete) : ~calls.delete[j].ok) =>
        /\ calls.outcome # "failed"
        /\ pc \notin {"delete", "idle"} =>
              \A id \in Unreferenced : Count(calls.delete, id) = 1
        /\ Done =>
              /\ Completed
              /\ {calls.processed[i].block : i \in 1..Len(calls.processed)}
                    = {run.logseqCards[i].id : i \in 1..Len(run.logseqCards)}

\* The delete call of one orphan failed, the other orphan was deleted after
\* it, and a card was then created.
C38_Witness ==
    /\ Completed
    /\ Len(calls.delete) = 2
    /\ ~calls.delete[1].ok
    /\ calls.delete[2].ok
    /\ \E j \in 1..Len(calls.create) : calls.create[j].id # None

PagesDone == probe.fn = "fetchMochiCards" /\ probe.done /\ ~probe.threw

\* The tagged cards of the first n pages, as the set of <<page, position>>.
TaggedUpTo(n) ==
    {<<i, k>> : i \in 1..n, k \in 1..2} \cap
    {c \in (1..MaxPages) \X (1..2) :
        /\ c[1] <= Len(probe.pages) /\ c[2] <= Len(probe.pages[c[1]].docs)
        /\ probe.pages[c[1]].docs[c[2]].tagged}

\* The last page reached by following the bookmarks until one is absent.
LastByBookmark ==
    LET ends == {i \in 1..Len(probe.pages) : ~probe.pages[i].bookmark}
    IN  IF ends = {} THEN Len(probe.pages) ELSE CHOOSE i \in ends : \A j \in ends : i <= j

\* The last page reached when a page without docs ends the traversal too.
LastByBookmarkOrEmpty ==
    LET ends == {i \in 1..Len(probe.pages) :
                    ~probe.pages[i].bookmark \/ probe.pages[i].docs = <<>>}
    IN  IF ends = {} THEN Len(probe.pages) ELSE CHOOSE i \in ends : \A j \in ends : i <= j

\* C39 as stated: fetchMochiCards returns exactly the tagged cards of the
\* pages reached by following the bookmarks until a page has none.
C39_AllBookmarkedPages ==
    PagesDone =>
        /\ SeqToSet(probe.mochiCards) = TaggedUpTo(LastByBookmark)
        /\ Len(probe.mochiCards) = Cardinality(TaggedUpTo(LastByBookmark))

\* C39, amended: fetchMochiCards ends after at most one request more than
\* the store has pages and returns exactly the tagged cards of the pages up
\* to the first page that has no bookmark or no docs; a page with docs none
\* of which is tagged does not end the traversal.
C39_PagesUntilEmptyOrLast ==
    /\ probe.fn = "fetchMochiCards" => probe.bookmark <= Len(probe.pages) + 1
    /\ PagesDone =>
          /\ SeqToSet(probe.mochiCards) = TaggedUpTo(LastByBookmarkOrEmpty)
          /\ Len(probe.mochiCards) = Cardinality(TaggedUpTo(LastByBookmarkOrEmpty))

\* Three pages were read, the second holds cards but none tagged, and a
\* tagged card of the third is in the result.
C39_Witness ==
    /\ PagesDone
    /\ Len(probe.pages) = 3
    /\ probe.pages[2].docs # <<>>
    /\ \A k \in 1..Len(probe.pages[2].docs) : ~probe.pages[2].docs[k].tagged
    /\ <<3, 1>> \in SeqToSet(probe.mochiCards)

\* The ids of the delete calls of the run that succeeded.
DeletedIds == {calls.delete[j].id : j \in {k \in 1..Len(calls.delete) : calls.delete[k].ok}}

NeededDeck(e) == IF e.deckname # None THEN e.deckname ELSE settings.defaultDeck

\* The processed entry of a block in the run's log.
ProcessedOf(b) ==
    CHOOSE e \in SeqToSet(calls.processed) \cup {[block |-> b, deckname |-> None]} :
        e.block = b /\ (e \in SeqToSet(calls.processed) \/ \A x \in SeqToSet(calls.processed) : x.block # b)

\* C27: every create request and every update request of a run carries the
\* id of the deck named by the card's mochi-deck property, and the id of the
\* configured default deck when the card has no mochi-deck property.
C27_DeckSelected ==
    /\ \A j \in 1..Len(calls.create) :
          calls.create[j].deck = DeckId(NeededDeck(ProcessedOf(calls.create[j].block)))
    /\ \A j \in 1..Len(calls.update) :
          calls.update[j].deck = DeckId(NeededDeck(ProcessedOf(calls.update[j].block)))

\* C10: a block whose deck name has no id after deck resolution is skipped
\* with a per-card error: no create or update request is sent for it under
\* any deck, and the blocks after it are still processed.
C10_UnresolvedDeckSkipped ==
    /\ \A i \in 1..Len(calls.processed) :
          LET e == calls.processed[i]
          IN  e.branch # "threw" /\ NeededDeck(e) \notin DOMAIN run.deckMap =>
                /\ e.branch \in {"createNoDeck", "updateNoDeck"}
                /\ e.block \in SeqToSet(calls.cardErrors)
                /\ CreatesOf(e.block) = {}
                /\ \A j \in 1..Len(calls.update) : calls.update[j].block # e.block
    /\ Completed => Len(calls.processed) = Len(run.logseqCards)

====
